---- MODULE Spec2Model ----
(***************************************************************************)
(* The lazy evaluation engine of nix-compiler as a state machine.          *)
(*                                                                         *)
(* The interpreter is a single-threaded recursive tree walk.  Its Rust     *)
(* call stack is the variable `stack`: one frame per active call of an     *)
(* evaluator function, each with the position (pc) the call has reached.   *)
(* One action is one stretch of a function's code between two calls that   *)
(* can re-enter the evaluator.  The heap (thunk cells, value cells,        *)
(* scopes) and the file cache are variables; the input is the expression   *)
(* tree of the file named on the command line.                             *)
(***************************************************************************)
EXTENDS Integers, Sequences, FiniteSets, TLC

VARIABLES
    prog,        \* parsed tree of the file given on the command line
    thunks,      \* heap of Rc<RefCell<LazyNixValue>> cells, by id
    values,      \* heap of Rc<RefCell<NixValue>> cells, by id
    scopes,      \* heap of Rc<Scope>, by id
    FILE_CACHE,  \* canonical path -> id of the file's top-level thunk
    stack,       \* call stack of the evaluator, innermost call last
    ret,         \* what the call that finished last returned
    status,      \* "running", "done" (exit 0), "error" (exit 1), "exit" (throw),
                 \* "panic", "overflow" (stack exhausted)
    evals,       \* observation: thunk id -> times its body was evaluated
    forced,      \* observation: thunk id -> value cells its forces returned
    reads,       \* observation: canonical path -> times read and parsed
    visits,      \* observation: tree node -> times visit_expr ran on it
    history,     \* observation: thunk id -> the states the cell has held
    builder,     \* an AttrsetBuilder driven by its public methods
    snapshot,    \* what the last call on the builder returned
    hash,        \* a Hash printed to text and read back by Hash::new
    drv          \* a Derivation asked for the path of one of its outputs

\* The state of the evaluator, and the state of the components that are
\* exercised on their own
machine == <<prog, thunks, values, scopes, FILE_CACHE, stack, ret, status,
             evals, forced, reads, visits, history>>
lib == <<builder, snapshot, hash, drv>>
vars == <<machine, lib>>

-----------------------------------------------------------------------------
(* Bounds of the model *)

\* Integer literals of the generated inputs are 1..MaxInt
MaxInt == 2

-----------------------------------------------------------------------------
(* Syntax trees (rnix::ast::Expr).  A node is a record with its kind `k`,  *)
(* its children `ch` and the tokens of its kind.                           *)

Lit(n) == [k |-> "Literal", n |-> n, ch |-> <<>>]
Id(x) == [k |-> "Ident", name |-> x, ch |-> <<>>]
Paren(e) == [k |-> "Paren", ch |-> <<e>>]
PathLit(p) == [k |-> "Path", path |-> p, ch |-> <<>>]
\* A string without interpolation
Str(s) == [k |-> "Str", s |-> s, ch |-> <<>>]
BinOp(op, l, r) == [k |-> "BinOp", op |-> op, ch |-> <<l, r>>]
Select(e, path) == [k |-> "Select", attrs |-> path, default |-> FALSE, ch |-> <<e>>]
SelectOr(e, path, d) ==
    [k |-> "Select", attrs |-> path, default |-> TRUE, ch |-> <<e, d>>]
\* `e ? a.b`
HasAttr(e, path) == [k |-> "HasAttr", attrs |-> path, ch |-> <<e>>]
AssertE(c, b) == [k |-> "Assert", ch |-> <<c, b>>]
\* `with e; b`
With(e, b) == [k |-> "With", ch |-> <<e, b>>]
Apply(f, a) == [k |-> "Apply", ch |-> <<f, a>>]
Lambda(x, b) == [k |-> "Lambda", pattern |-> FALSE, param |-> x, ch |-> <<b>>]
\* `{ n1 ? d1, n2, ... } @ bind: b`: the names of the pattern entries, their
\* defaults (NoDefault where an entry has none) as the children after the
\* body, whether the ellipsis is there, and the name after `@` ("" if none)
NoDefault == [k |-> "None", ch |-> <<>>]
LambdaPat(names, defaults, ellipsis, bind, b) ==
    [k |-> "Lambda", pattern |-> TRUE,
     param |-> [names |-> names, ellipsis |-> ellipsis, bind |-> bind],
     ch |-> <<b>> \o defaults]
List(es) == [k |-> "List", ch |-> es]
\* An entry `a.b = e;` is [path |-> <<"a","b">>, inherit |-> FALSE] with child e;
\* an entry `inherit x;` is [path |-> <<"x">>, inherit |-> TRUE] (its child unused).
Bind(path) == [path |-> path, inherit |-> FALSE]
Inherit(x) == [path |-> <<x>>, inherit |-> TRUE]
AttrSet(ents, es) == [k |-> "AttrSet", rec |-> FALSE, ents |-> ents, ch |-> es]
RecAttrSet(ents, es) == [k |-> "AttrSet", rec |-> TRUE, ents |-> ents, ch |-> es]
LetIn(ents, es, body) == [k |-> "LetIn", ents |-> ents, ch |-> Append(es, body)]
\* What rnix returns for a text that does not parse
ParseError == [k |-> "ParseError", ch |-> <<>>]

\* `{ n1 = e1; n2 = e2; }` from names and values
Set1(names, es) == AttrSet([i \in 1..Len(names) |-> Bind(<<names[i]>>)], es)
Let1(names, es, body) == LetIn([i \in 1..Len(names) |-> Bind(<<names[i]>>)], es, body)

\* A span (NixSpan) is the place of a node: the file and the path from its root
NoSpan == [f |-> "", p |-> <<>>]
Span(f, p) == [f |-> f, p |-> p]
Child(sp, i) == [f |-> sp.f, p |-> Append(sp.p, i)]

RECURSIVE Sub(_, _)
Sub(e, p) == IF p = <<>> THEN e ELSE Sub(e.ch[Head(p)], Tail(p))

-----------------------------------------------------------------------------
(* The file system: what `read the bytes at a path` and canonicalize give  *)

MainPath == "main.nix"

\* Directories (an import of a directory reads its default.nix)
IsDir(p) == p \in {"dir"}

\* std::fs::canonicalize: other spellings of a path give its canonical form
Canonicalize(p) ==
    CASE p = "./a.nix" -> "a.nix"
      [] p = "dir/../a.nix" -> "a.nix"
      [] OTHER -> p

\* The files next to the main file, parsed
Files ==
    [ p \in {"a.nix", "dir/default.nix", "bad.nix", "fail.nix", "cyc.nix",
             "c1.nix", "c2.nix"} |->
        CASE p = "a.nix" -> Set1(<<"v">>, <<Lit(1)>>)
          [] p = "dir/default.nix" -> Lit(2)
          [] p = "bad.nix" -> ParseError
          [] p = "fail.nix" -> AssertE(Id("false"), Lit(1))
          [] p = "cyc.nix" -> Apply(Id("import"), PathLit("cyc.nix"))
          [] p = "c1.nix" -> Apply(Id("import"), PathLit("c2.nix"))
          [] p = "c2.nix" -> Apply(Id("import"), PathLit("c1.nix")) ]

\* fs::read_to_string + rnix::Root::parse of a canonical path
Content(p) == IF p = MainPath THEN prog ELSE Files[p]

\* The node a span points at
Node(sp) == Sub(Content(sp.f), sp.p)

\* normalize_path: a directory stands for its default.nix; then canonicalize
normalize_path(p) == Canonicalize(IF IsDir(p) THEN "dir/default.nix" ELSE p)

\* Whether std::fs finds a file at the canonical path
Exists(p) == p = MainPath \/ p \in DOMAIN Files

-----------------------------------------------------------------------------
(* Errors (NixError): the kind of the message and the spans of its labels  *)

NoErr == [kind |-> "none", labels |-> <<>>]
Error(kind, labels) == [kind |-> kind, labels |-> labels]

\* What a call returns (NixResult): Ok(v) with the id of a thunk or value cell,
\* Ok(b) with a boolean, or Err(e)
Ok(v) == [ok |-> TRUE, v |-> v, b |-> FALSE, err |-> NoErr]
OkBool(b) == [ok |-> TRUE, v |-> 0, b |-> b, err |-> NoErr]
Err(e) == [ok |-> FALSE, v |-> 0, b |-> FALSE, err |-> e]

-----------------------------------------------------------------------------
(* The heap *)

\* NixValue
VInt(n) == [t |-> "int", n |-> n]
VBool(b) == [t |-> "bool", b |-> b]
VNull == [t |-> "null"]
VPath(p) == [t |-> "path", path |-> p]
VString(s) == [t |-> "string", s |-> s]
VAttrSet(m) == [t |-> "attrs", m |-> m]
\* A list holds its thunks in order (NixList)
VList(items) == [t |-> "list", items |-> items]
VLambda(sc, param, body) == [t |-> "lambda", scope |-> sc, param |-> param, body |-> body]
\* A builtin with the arguments it has captured so far (the Option fields
\* of its struct that are Some), as thunk ids
VPartial(name, args) == [t |-> "builtin", name |-> name, args |-> args]
VBuiltin(name) == VPartial(name, <<>>)
\* The number of parameters of the native function, `backtrace` aside
Arity(name) == IF name = "compare_versions" THEN 2 ELSE 1

\* LazyNixValue
Concrete(v) == [st |-> "Concrete", val |-> v]
Pending(bt, sc, nd) == [st |-> "Pending", def |-> bt, scope |-> sc, node |-> nd]
Eval(bt, sc, attr) == [st |-> "Eval", def |-> bt, scope |-> sc, attr |-> attr]
UpdateResolve(lhs, rhs, bt, sc) ==
    [st |-> "UpdateResolve", lhs |-> lhs, rhs |-> rhs, def |-> bt, scope |-> sc]
Resolving(def, use) == [st |-> "Resolving", def |-> def, use |-> use]

\* Scope
Scope(file, variables, parent) == [file |-> file, vars |-> variables, parent |-> parent]

\* BTreeMap<String, NixVar>: a function from names to thunk ids, iterated in
\* the order of its keys.  Alphabet lists every name of the inputs in that order.
EmptyMap == [k \in {} |-> 0]
Alphabet ==
    <<"a", "b", "builtins", "c", "compareVersions", "f", "false", "import", "null", "p", "q", "r",
      "s", "success", "throw", "true", "tryEval", "u", "v", "value", "x", "y", "z">>
Keys(m) == SelectSeq(Alphabet, LAMBDA k : k \in DOMAIN m)
Insert(m, k, t) == (k :> t) @@ m
\* lhs.extend(rhs): the entries of rhs replace those of lhs
Extend(lhs, rhs) == rhs @@ lhs

is_attr_set(v) == values[v].t = "attrs"

\* Scope::get_variable: the innermost scope that has the name; 0 is None
RECURSIVE get_variable(_, _)
get_variable(sc, x) ==
    IF sc = 0 THEN 0
    ELSE IF x \in DOMAIN values[scopes[sc].vars].m THEN values[scopes[sc].vars].m[x]
    ELSE get_variable(scopes[sc].parent, x)

\* The observations are functions with a default outside their domain
Count(f, x) == IF x \in DOMAIN f THEN f[x] ELSE 0
Bump(f, x) == (x :> Count(f, x) + 1) @@ f
Seen(f, x) == IF x \in DOMAIN f THEN f[x] ELSE {}
Log(f, x, v) == (x :> (Seen(f, x) \cup {v})) @@ f

\* The states a thunk cell has held, from its creation on
Hist(t) == IF t \in DOMAIN history THEN history[t] ELSE <<thunks[t]>>
\* A thunk cell is overwritten (RefCell::replace)
Replace(t, new) ==
    /\ thunks' = [thunks EXCEPT ![t] = new]
    /\ history' = (t :> Append(Hist(t), new)) @@ history

-----------------------------------------------------------------------------
(* The call stack *)

\* A frame: the function, the position in it, and its arguments and locals
Frame(fn, pc) ==
    [fn |-> fn, pc |-> pc, sc |-> 0, bt |-> NoSpan, nd |-> NoSpan, t |-> 0,
     v |-> 0, w |-> 0, i |-> 0, xs |-> <<>>, use |-> NoSpan, path |-> "",
     again |-> FALSE]

Top == stack[Len(stack)]
Rest == SubSeq(stack, 1, Len(stack) - 1)
At(fn, pc) == status = "running" /\ stack # <<>> /\ Top.fn = fn /\ Top.pc = pc

\* The frames of the callees
visit_expr(sc, bt, nd) == [Frame("visit_expr", "start") EXCEPT !.sc = sc, !.bt = bt, !.nd = nd]
NixVar_resolve(t, bt) == [Frame("NixVar_resolve", "start") EXCEPT !.t = t, !.bt = bt]
resolve(t, bt) == [Frame("resolve", "start") EXCEPT !.t = t, !.bt = bt]
resolve_set(t, bt) == [Frame("resolve_set", "start") EXCEPT !.t = t, !.bt = bt]
get_file(path) == [Frame("get_file", "start") EXCEPT !.path = path]

\* call: the caller waits at `caller.pc` for the callee; become: a tail call
Call(caller, callee) == stack' = Rest \o <<caller, callee>>
Become(callee) == stack' = Append(Rest, callee)
Return(r) == stack' = Rest /\ ret' = r

heap == <<thunks, values, scopes>>
obs == <<evals, forced, reads, visits, history>>

\* A panic (todo!, unwrap on None, expect) ends the process
Panic == status' = "panic" /\ UNCHANGED <<stack, ret>>

-----------------------------------------------------------------------------
(* main *)

\* main.rs: the file named on the command line is loaded through the cache
MainStart ==
    /\ At("main", "start")
    /\ Call([Top EXCEPT !.pc = "got_file"], get_file(MainPath))
    /\ UNCHANGED <<lib, prog, heap, FILE_CACHE, ret, status, obs>>

\* main.rs: an error of the load is printed and the process exits with 1;
\* otherwise the result is wrapped in a Concrete thunk and forced in depth
MainGotFile ==
    /\ At("main", "got_file")
    /\ IF ret.ok
         THEN /\ thunks' = Append(thunks, Concrete(ret.v))
              /\ Call([Top EXCEPT !.pc = "resolved"],
                      [Frame("resolve_set", "start") EXCEPT
                          !.t = Len(thunks) + 1, !.bt = Span(normalize_path(MainPath), <<>>)])
              /\ UNCHANGED status
         ELSE /\ status' = "error"
              /\ UNCHANGED <<thunks, stack>>
    /\ UNCHANGED <<lib, prog, values, scopes, FILE_CACHE, ret, obs>>

\* main.rs: the forced result is printed, or the error is and the exit code is 1
MainResolved ==
    /\ At("main", "resolved")
    /\ status' = IF ret.ok THEN "done" ELSE "error"
    /\ UNCHANGED <<lib, prog, heap, FILE_CACHE, stack, ret, obs>>

-----------------------------------------------------------------------------
(* The file cache *)

\* Scope::new_with_builtins and raw_evaluate: the cells a file load allocates.
\* Of the globals the model keeps true, false, null, import, throw and
\* builtins.tryEval.
FileValues(nt) ==
    << VBool(FALSE), VBool(TRUE), VNull, VBuiltin("import"), VBuiltin("try_eval"),
       VAttrSet(("import" :> nt + 4) @@ ("tryEval" :> nt + 5) @@ ("throw" :> nt + 8)
                @@ ("compareVersions" :> nt + 9)),
       VAttrSet(("false" :> nt + 1) @@ ("true" :> nt + 2) @@ ("null" :> nt + 3)
                @@ ("import" :> nt + 4) @@ ("builtins" :> nt + 6)
                @@ ("throw" :> nt + 8)),
       VAttrSet(EmptyMap), VBuiltin("throw"), VBuiltin("compare_versions") >>
FileThunks(nv, ns, path) ==
    << Concrete(nv + 1), Concrete(nv + 2), Concrete(nv + 3), Concrete(nv + 4),
       Concrete(nv + 5), Concrete(nv + 6),
       Pending(Span(path, <<>>), ns + 2, Span(path, <<>>)), Concrete(nv + 9),
       Concrete(nv + 10) >>
FileScopes(nv, ns, path) ==
    << Scope(path, nv + 7, 0), Scope(path, nv + 8, ns + 1) >>

\* A get_file without the Occupied arm: every request loads the file
GetFileUncached ==
    /\ At("get_file", "start")
    /\ LET path == normalize_path(Top.path)
           bt == Span(path, <<>>)
           nt == Len(thunks)
       IN  IF ~Exists(path)
           THEN Panic /\ UNCHANGED <<heap, FILE_CACHE, reads, history>>
           ELSE /\ reads' = Bump(reads, path)
                /\ IF Content(path).k = "ParseError"
                   THEN /\ Return(Err(Error("ParseError", <<bt>>)))
                        /\ UNCHANGED <<heap, FILE_CACHE, status>>
                   ELSE /\ values' = values \o FileValues(nt)
                        /\ thunks' = thunks \o FileThunks(Len(values), Len(scopes), path)
                        /\ scopes' = scopes \o FileScopes(Len(values), Len(scopes), path)
                        /\ FILE_CACHE' = Insert(FILE_CACHE, path, nt + 7)
                        /\ Call([Top EXCEPT !.pc = "resolved", !.bt = bt],
                                NixVar_resolve(nt + 7, bt))
                        /\ UNCHANGED <<ret, status>>
    /\ UNCHANGED <<lib, prog, evals, forced, visits, history>>

\* FileScope::get_file up to the force of the file's thunk
GetFile ==
    /\ At("get_file", "start")
    /\ LET path == normalize_path(Top.path)
           bt == Span(path, <<>>)
           nt == Len(thunks)
       IN  IF ~Exists(path)
           THEN Panic /\ UNCHANGED <<heap, FILE_CACHE, reads, history>>
           ELSE IF path \in DOMAIN FILE_CACHE
           THEN /\ Call([Top EXCEPT !.pc = "resolved", !.bt = bt],
                        NixVar_resolve(FILE_CACHE[path], bt))
                /\ UNCHANGED <<heap, FILE_CACHE, reads, ret, status, history>>
           ELSE /\ reads' = Bump(reads, path)
                /\ IF Content(path).k = "ParseError"
                   THEN /\ Return(Err(Error("ParseError", <<bt>>)))
                        /\ UNCHANGED <<heap, FILE_CACHE, status>>
                   ELSE /\ values' = values \o FileValues(nt)
                        /\ thunks' = thunks \o FileThunks(Len(values), Len(scopes), path)
                        /\ scopes' = scopes \o FileScopes(Len(values), Len(scopes), path)
                        /\ FILE_CACHE' = Insert(FILE_CACHE, path, nt + 7)
                        /\ Call([Top EXCEPT !.pc = "resolved", !.bt = bt],
                                NixVar_resolve(nt + 7, bt))
                        /\ UNCHANGED <<ret, status>>
    /\ UNCHANGED <<lib, prog, evals, forced, visits, history>>

\* FileScope::get_file: Ok((backtrace, out)) once the thunk is forced
GetFileResolved ==
    /\ At("get_file", "resolved")
    /\ ret.ok
    /\ stack' = Rest
    /\ UNCHANGED <<lib, prog, heap, FILE_CACHE, ret, status, obs>>

-----------------------------------------------------------------------------
(* The `?` operator *)

\* The places that inspect an Err instead of returning it
Catchers == {<<"main", "got_file">>, <<"main", "resolved">>, <<"try_eval", "resolved">>}

\* An Err returned by a callee returns from the caller at once
Propagate ==
    /\ status = "running" /\ stack # <<>>
    /\ ~ret.ok
    /\ Top.pc # "start"
    /\ <<Top.fn, Top.pc>> \notin Catchers
    /\ stack' = Rest
    /\ UNCHANGED <<lib, prog, heap, FILE_CACHE, ret, status, obs>>

-----------------------------------------------------------------------------
(* Forcing: NixVar::resolve and LazyNixValue::resolve *)

\* The error of a force that finds the thunk Resolving: the span of the
\* definition, the span of the caller and the span of the first use
\* The error with the labels of the caller and of the first use exchanged
InfiniteRecursionSwapped(def, caller, use) ==
    Error("InfiniteRecursion", <<def, use, caller>>)

InfiniteRecursion(def, caller, use) == Error("InfiniteRecursion", <<def, caller, use>>)

\* NixVar::resolve: a Concrete thunk gives its value at once
NixVarResolve ==
    /\ At("NixVar_resolve", "start")
    /\ LET th == thunks[Top.t]
       IN  IF th.st = "Concrete"
           THEN /\ Return(Ok(th.val))
                /\ forced' = Log(forced, Top.t, th.val)
           ELSE /\ Call([Top EXCEPT !.pc = "loop", !.again = Seen(forced, Top.t) # {}],
                        resolve(Top.t, Top.bt))
                /\ UNCHANGED <<ret, forced, history>>
    /\ UNCHANGED <<lib, prog, heap, FILE_CACHE, status, evals, reads, visits, history>>

\* NixVar::resolve: force again while the thunk is an UpdateResolve
NixVarResolveLoop ==
    /\ At("NixVar_resolve", "loop")
    /\ ret.ok
    /\ IF thunks[Top.t].st = "UpdateResolve"
       THEN /\ Call(Top, resolve(Top.t, Top.bt))
            /\ UNCHANGED <<ret, forced, history>>
       ELSE /\ Return(ret)
            /\ forced' = Log(forced, Top.t, ret.v)
    /\ UNCHANGED <<lib, prog, heap, FILE_CACHE, status, evals, reads, visits, history>>

\* LazyNixValue::resolve of a Concrete thunk
ResolveConcrete ==
    /\ At("resolve", "start")
    /\ thunks[Top.t].st = "Concrete"
    /\ Return(Ok(thunks[Top.t].val))
    /\ UNCHANGED <<lib, prog, heap, FILE_CACHE, status, obs>>

\* LazyNixValue::resolve of a thunk that is being forced
ResolveResolving ==
    /\ At("resolve", "start")
    /\ thunks[Top.t].st = "Resolving"
    /\ Return(Err(InfiniteRecursion(thunks[Top.t].def, Top.bt, thunks[Top.t].use)))
    /\ UNCHANGED <<lib, prog, heap, FILE_CACHE, status, obs>>

\* LazyNixValue::resolve of a Pending thunk: Resolving, then its expression
ResolvePending ==
    /\ At("resolve", "start")
    /\ thunks[Top.t].st = "Pending"
    /\ LET th == thunks[Top.t]
       IN  /\ Replace(Top.t, Resolving(th.def, Top.bt))
           /\ Call([Top EXCEPT !.pc = "pending_visited", !.bt = th.def, !.use = Top.bt],
                   visit_expr(th.scope, th.def, th.node))
    /\ evals' = Bump(evals, Top.t)
    /\ UNCHANGED <<lib, prog, values, scopes, FILE_CACHE, ret, status, forced, reads, visits>>

\* LazyNixValue::resolve, Pending: an UpdateResolve result is copied into this
\* thunk, which is forced once more; any other result is forced
ResolvePendingVisited ==
    /\ At("resolve", "pending_visited")
    /\ ret.ok
    /\ IF thunks[ret.v].st = "UpdateResolve"
       THEN /\ Replace(Top.t, thunks[ret.v])
            /\ Call([Top EXCEPT !.pc = "pending_returned"], resolve(Top.t, Top.bt))
       ELSE /\ Call([Top EXCEPT !.pc = "pending_resolved"], NixVar_resolve(ret.v, Top.bt))
            /\ UNCHANGED <<thunks, history>>
    /\ UNCHANGED <<lib, prog, values, scopes, FILE_CACHE, ret, status, evals, forced, reads,
                   visits>>

\* LazyNixValue::resolve, Pending: the value of the second force is returned
ResolvePendingReturned ==
    /\ At("resolve", "pending_returned")
    /\ ret.ok
    /\ stack' = Rest
    /\ UNCHANGED <<lib, prog, heap, FILE_CACHE, ret, status, obs>>

\* LazyNixValue::resolve, Pending: the thunk becomes Concrete
ResolvePendingResolved ==
    /\ At("resolve", "pending_resolved")
    /\ ret.ok
    /\ Replace(Top.t, Concrete(ret.v))
    /\ stack' = Rest
    /\ UNCHANGED <<lib, prog, values, scopes, FILE_CACHE, ret, status, evals, forced, reads,
                   visits>>

\* LazyNixValue::resolve of an Eval thunk: Resolving, then its closure
ResolveEval ==
    /\ At("resolve", "start")
    /\ thunks[Top.t].st = "Eval"
    /\ LET th == thunks[Top.t]
       IN  /\ Replace(Top.t, Resolving(th.def, Top.bt))
           /\ Call([Top EXCEPT !.pc = "eval_done", !.bt = th.def, !.use = Top.bt],
                   [Frame("inherit", "start") EXCEPT
                       !.sc = th.scope, !.path = th.attr, !.bt = th.def])
    /\ evals' = Bump(evals, Top.t)
    /\ UNCHANGED <<lib, prog, values, scopes, FILE_CACHE, ret, status, forced, reads, visits>>

\* LazyNixValue::resolve, Eval: the thunk becomes Concrete
ResolveEvalDone ==
    /\ At("resolve", "eval_done")
    /\ ret.ok
    /\ Replace(Top.t, Concrete(ret.v))
    /\ stack' = Rest
    /\ UNCHANGED <<lib, prog, values, scopes, FILE_CACHE, ret, status, evals, forced, reads,
                   visits>>

\* The merge of an update: the entries of lhs, then those of rhs over them
Merge(lhs, rhs) == VAttrSet(Extend(values[lhs].m, values[rhs].m))

\* LazyNixValue::resolve of an UpdateResolve thunk: Resolving, then at once
\* Concrete(lhs), then the right operand is visited
ResolveUpdate ==
    /\ At("resolve", "start")
    /\ thunks[Top.t].st = "UpdateResolve"
    /\ LET th == thunks[Top.t]
       IN  /\ thunks' = [thunks EXCEPT ![Top.t] = Concrete(th.lhs)]
           /\ history' = (Top.t :> (Hist(Top.t) \o
                             <<Resolving(th.def, Top.bt), Concrete(th.lhs)>>)) @@ history
           /\ Call([Top EXCEPT !.pc = "update_visited", !.v = th.lhs, !.bt = th.def,
                               !.use = Top.bt],
                   visit_expr(th.scope, th.def, th.rhs))
    /\ UNCHANGED <<lib, prog, values, scopes, FILE_CACHE, ret, status, evals, forced, reads,
                   visits>>

\* LazyNixValue::resolve, UpdateResolve: a right operand that is an
\* UpdateResolve itself gives its lhs to the merge and its rhs to this thunk,
\* and the merge so far is returned; any other right operand is forced
ResolveUpdateVisited ==
    /\ At("resolve", "update_visited")
    /\ ret.ok
    /\ IF thunks[ret.v].st = "UpdateResolve"
       THEN LET r == thunks[ret.v]
                new == Len(values) + 1
            IN  /\ values' = Append(values, Merge(Top.v, r.lhs))
                /\ Replace(Top.t, UpdateResolve(new, r.rhs, r.def, r.scope))
                /\ Return(Ok(new))
       ELSE /\ Call([Top EXCEPT !.pc = "update_resolved"], NixVar_resolve(ret.v, Top.bt))
            /\ UNCHANGED <<thunks, values, ret, history>>
    /\ UNCHANGED <<lib, prog, scopes, FILE_CACHE, status, evals, forced, reads, visits>>

\* A merge that goes on to force every entry of the merged set
ResolveUpdateResolvedDeep ==
    /\ At("resolve", "update_resolved")
    /\ ret.ok
    /\ IF is_attr_set(ret.v)
       THEN LET new == Len(values) + 1
            IN  /\ values' = Append(values, Merge(Top.v, ret.v))
                /\ Replace(Top.t, Concrete(new))
                /\ Become(resolve_set(Top.t, Top.bt))
                /\ UNCHANGED <<ret, status>>
       ELSE Panic /\ UNCHANGED <<thunks, values, history>>
    /\ UNCHANGED <<lib, prog, scopes, FILE_CACHE, evals, forced, reads, visits>>

\* LazyNixValue::resolve, UpdateResolve: the merge becomes the Concrete value
ResolveUpdateResolved ==
    /\ At("resolve", "update_resolved")
    /\ ret.ok
    /\ IF is_attr_set(ret.v)
       THEN LET new == Len(values) + 1
            IN  /\ values' = Append(values, Merge(Top.v, ret.v))
                /\ Replace(Top.t, Concrete(new))
                /\ Return(Ok(new))
                /\ UNCHANGED status
       ELSE Panic /\ UNCHANGED <<thunks, values, history>>
    /\ UNCHANGED <<lib, prog, scopes, FILE_CACHE, evals, forced, reads, visits>>

\* The closure of `inherit x;`: the variable of the scope, forced
InheritEval ==
    /\ At("inherit", "start")
    /\ LET var == get_variable(Top.sc, Top.path)
       IN  IF var = 0
           THEN Return(Err(Error("VariableNotFound", <<Top.bt>>)))
           ELSE Become(NixVar_resolve(var, Top.bt)) /\ UNCHANGED ret
    /\ UNCHANGED <<lib, prog, heap, FILE_CACHE, status, obs>>

-----------------------------------------------------------------------------
(* Scope::visit_expr *)

\* NixBacktrace::visit: the span of the node, except under a set or parentheses
Visit(bt, nd) == IF Node(nd).k \in {"AttrSet", "List", "Paren"} THEN bt ELSE nd

\* A new cell wrapped in a Concrete thunk (NixValue::wrap_var) is returned
ReturnVar(value) ==
    /\ values' = Append(values, value)
    /\ thunks' = Append(thunks, Concrete(Len(values) + 1))
    /\ Return(Ok(Len(thunks) + 1))

VisitStart(kind) ==
    /\ At("visit_expr", "start")
    /\ Node(Top.nd).k = kind
    /\ visits' = Bump(visits, Top.nd)

\* visit_literal
VisitLiteral ==
    /\ VisitStart("Literal")
    /\ ReturnVar(VInt(Node(Top.nd).n))
    /\ UNCHANGED <<lib, prog, scopes, FILE_CACHE, status, evals, forced, reads, history>>

\* visit_path
VisitPath ==
    /\ VisitStart("Path")
    /\ ReturnVar(VPath(Node(Top.nd).path))
    /\ UNCHANGED <<lib, prog, scopes, FILE_CACHE, status, evals, forced, reads, history>>

\* visit_str: the literal parts concatenated
VisitStr ==
    /\ VisitStart("Str")
    /\ ReturnVar(VString(Node(Top.nd).s))
    /\ UNCHANGED <<lib, prog, scopes, FILE_CACHE, status, evals, forced, reads, history>>

\* visit_ident: the thunk the name is bound to, as it is
VisitIdent ==
    /\ VisitStart("Ident")
    /\ LET var == get_variable(Top.sc, Node(Top.nd).name)
       IN  IF var = 0
           THEN Return(Err(Error("VariableNotFound", <<Top.nd>>)))
           ELSE Return(Ok(var))
    /\ UNCHANGED <<lib, prog, heap, FILE_CACHE, status, evals, forced, reads, history>>

\* visit_paren
VisitParen ==
    /\ VisitStart("Paren")
    /\ Become(visit_expr(Top.sc, Visit(Top.bt, Top.nd), Child(Top.nd, 1)))
    /\ UNCHANGED <<lib, prog, heap, FILE_CACHE, ret, status, evals, forced, reads, history>>

\* visit_lambda
VisitLambda ==
    /\ VisitStart("Lambda")
    /\ ReturnVar(VLambda(Top.sc, Node(Top.nd).param, Child(Top.nd, 1)))
    /\ UNCHANGED <<lib, prog, scopes, FILE_CACHE, status, evals, forced, reads, history>>

\* visit_list: a Pending thunk of every item, in the scope of the list
VisitList ==
    /\ VisitStart("List")
    /\ LET n == Len(Node(Top.nd).ch)
           nt == Len(thunks)
       IN  /\ thunks' = thunks \o [i \in 1..n |->
                                      Pending(Child(Top.nd, i), Top.sc, Child(Top.nd, i))]
                                \o <<Concrete(Len(values) + 1)>>
           /\ values' = Append(values, VList([i \in 1..n |-> nt + i]))
           /\ Return(Ok(nt + n + 1))
    /\ UNCHANGED <<lib, prog, scopes, FILE_CACHE, status, evals, forced, reads, history>>

\* visit_attrset: a rec set is built in the variables of a new child scope
VisitAttrSet ==
    /\ VisitStart("AttrSet")
    /\ values' = Append(values, VAttrSet(EmptyMap))
    /\ IF Node(Top.nd).rec
       THEN /\ scopes' = Append(scopes, Scope(Top.nd.f, Len(values) + 1, Top.sc))
            /\ Become([Top EXCEPT !.fn = "visit_attrset", !.pc = "entries", !.i = 1,
                          !.bt = Visit(Top.bt, Top.nd), !.v = Len(values) + 1,
                          !.sc = Len(scopes) + 1])
       ELSE /\ Become([Top EXCEPT !.fn = "visit_attrset", !.pc = "entries", !.i = 1,
                          !.bt = Visit(Top.bt, Top.nd), !.v = Len(values) + 1])
            /\ UNCHANGED scopes
    /\ UNCHANGED <<lib, prog, thunks, FILE_CACHE, ret, status, evals, forced, reads, history>>

insert_entry_to_attrset(sc, bt, out, nd, i) ==
    [Frame("insert_entry_to_attrset", "start") EXCEPT
        !.sc = sc, !.bt = bt, !.v = out, !.nd = nd, !.i = i]

\* visit_attrset: the entries in turn, then the set in a Concrete thunk
VisitAttrSetEntries ==
    /\ At("visit_attrset", "entries")
    /\ ret.ok
    /\ IF Top.i <= Len(Node(Top.nd).ents)
       THEN /\ Call([Top EXCEPT !.i = Top.i + 1],
                    insert_entry_to_attrset(Top.sc, Top.bt, Top.v, Top.nd, Top.i))
            /\ UNCHANGED <<thunks, ret>>
       ELSE /\ thunks' = Append(thunks, Concrete(Top.v))
            /\ Return(Ok(Len(thunks) + 1))
    /\ UNCHANGED <<lib, prog, values, scopes, FILE_CACHE, status, obs>>

\* visit_letin: the entries go into the variables of the scope itself
VisitLetIn ==
    /\ VisitStart("LetIn")
    /\ Become([Top EXCEPT !.fn = "visit_letin", !.pc = "entries", !.i = 1,
                  !.bt = Visit(Top.bt, Top.nd), !.v = scopes[Top.sc].vars])
    /\ UNCHANGED <<lib, prog, heap, FILE_CACHE, ret, status, evals, forced, reads, history>>

\* visit_letin: the entries in turn, then a Pending thunk of the body in a
\* new child scope
VisitLetInEntries ==
    /\ At("visit_letin", "entries")
    /\ ret.ok
    /\ LET n == Len(Node(Top.nd).ents)
       IN  IF Top.i <= n
           THEN /\ Call([Top EXCEPT !.i = Top.i + 1],
                        insert_entry_to_attrset(Top.sc, Child(Top.nd, Top.i), Top.v,
                                                Top.nd, Top.i))
                /\ UNCHANGED <<thunks, scopes, ret>>
           ELSE /\ scopes' = Append(scopes, Scope(Top.nd.f, Len(values) + 1, Top.sc))
                /\ thunks' = Append(thunks, Pending(Child(Top.nd, n + 1), Len(scopes) + 1,
                                                    Child(Top.nd, n + 1)))
                /\ Return(Ok(Len(thunks) + 1))
    /\ values' = IF Top.i <= Len(Node(Top.nd).ents) THEN values
                 ELSE Append(values, VAttrSet(EmptyMap))
    /\ UNCHANGED <<lib, prog, FILE_CACHE, status, obs>>

\* The last name of an attribute path, and the names before it
Last(path) == path[Len(path)]
Front(path) == SubSeq(path, 1, Len(path) - 1)

resolve_attr_set_path(sc, bt, value, attrs) ==
    [Frame("resolve_attr_set_path", "start") EXCEPT
        !.sc = sc, !.bt = bt, !.v = value, !.xs = attrs]

\* insert_to_attrset, from the target set on: a Pending thunk of the value in
\* a new child scope, under the last name of the path unless that is empty
InsertChild(target) ==
    LET attr == Last(Node(Top.nd).ents[Top.i].path)
        child == Pending(Child(Top.nd, Top.i), Len(scopes) + 1, Child(Top.nd, Top.i))
    IN  IF ~is_attr_set(target)
        THEN Panic /\ UNCHANGED heap
        ELSE /\ IF attr # ""
                THEN /\ thunks' = Append(thunks, child)
                     /\ scopes' = Append(scopes, Scope(Top.nd.f, Len(values) + 1, Top.sc))
                     /\ values' = Append([values EXCEPT ![target].m =
                                              Insert(@, attr, Len(thunks) + 1)],
                                         VAttrSet(EmptyMap))
                ELSE UNCHANGED heap
             /\ Return(Ok(Top.v))
             /\ UNCHANGED status

\* insert_entry_to_attrset: `inherit x;` binds x to an Eval thunk that looks
\* x up in the scope; `path = e;` goes through insert_to_attrset
InsertEntry ==
    /\ At("insert_entry_to_attrset", "start")
    /\ LET entry == Node(Top.nd).ents[Top.i]
       IN  IF entry.inherit
           THEN /\ thunks' = Append(thunks, Eval(Child(Top.nd, Top.i), Top.sc,
                                                 entry.path[1]))
                /\ values' = [values EXCEPT ![Top.v].m =
                                 Insert(@, entry.path[1], Len(thunks) + 1)]
                /\ Return(Ok(Top.v))
                /\ UNCHANGED <<scopes, status>>
           ELSE IF Len(entry.path) = 1
           THEN InsertChild(Top.v)
           ELSE /\ Call([Top EXCEPT !.pc = "target"],
                        resolve_attr_set_path(Top.sc, Top.bt, Top.v, Front(entry.path)))
                /\ UNCHANGED <<heap, ret, status>>
    /\ UNCHANGED <<lib, prog, FILE_CACHE, obs>>

\* insert_to_attrset once the set of the path before the last name is known
InsertToAttrsetTarget ==
    /\ At("insert_entry_to_attrset", "target")
    /\ ret.ok
    /\ InsertChild(ret.v)
    /\ UNCHANGED <<lib, prog, FILE_CACHE, obs>>

\* resolve_attr_set_path: a name the set lacks is created as an empty set; a
\* name it has is forced
ResolveAttrSetPath ==
    /\ At("resolve_attr_set_path", "start")
    /\ IF Top.xs = <<>>
       THEN /\ Return(Ok(Top.v))
            /\ UNCHANGED <<heap, status>>
       ELSE IF ~is_attr_set(Top.v)
       THEN Panic /\ UNCHANGED heap
       ELSE IF Head(Top.xs) \notin DOMAIN values[Top.v].m
       THEN /\ values' = Append([values EXCEPT ![Top.v].m =
                                    Insert(@, Head(Top.xs), Len(thunks) + 1)],
                                VAttrSet(EmptyMap))
            /\ thunks' = Append(thunks, Concrete(Len(values) + 1))
            /\ Become([Top EXCEPT !.v = Len(values) + 1, !.xs = Tail(Top.xs)])
            /\ UNCHANGED <<scopes, ret, status>>
       ELSE /\ Call([Top EXCEPT !.pc = "resolved", !.xs = Tail(Top.xs)],
                    NixVar_resolve(values[Top.v].m[Head(Top.xs)], Top.bt))
            /\ UNCHANGED <<heap, ret, status>>
    /\ UNCHANGED <<lib, prog, FILE_CACHE, obs>>

\* resolve_attr_set_path: the forced value has to be a set to go on
ResolveAttrSetPathResolved ==
    /\ At("resolve_attr_set_path", "resolved")
    /\ ret.ok
    /\ IF is_attr_set(ret.v)
       THEN Become([Top EXCEPT !.pc = "start", !.v = ret.v]) /\ UNCHANGED status
       ELSE Panic
    /\ UNCHANGED <<lib, prog, heap, FILE_CACHE, ret, obs>>

\* visit_select: the expression is visited first
VisitSelect ==
    /\ VisitStart("Select")
    /\ Call([Top EXCEPT !.fn = "visit_select", !.pc = "visited",
                        !.bt = Visit(Top.bt, Top.nd)],
            visit_expr(Top.sc, Visit(Top.bt, Top.nd), Child(Top.nd, 1)))
    /\ UNCHANGED <<lib, prog, heap, FILE_CACHE, ret, status, evals, forced, reads, history>>

\* resolve_attr_path works on the forced value of the expression
SelectVisited ==
    /\ At("visit_select", "visited")
    /\ ret.ok
    /\ Call([Top EXCEPT !.pc = "forced"], NixVar_resolve(ret.v, Top.bt))
    /\ UNCHANGED <<lib, prog, heap, FILE_CACHE, ret, status, obs>>

\* resolve_attr_path: the set of the path before its last name
SelectForced ==
    /\ At("visit_select", "forced")
    /\ ret.ok
    /\ Call([Top EXCEPT !.pc = "set_resolved"],
            resolve_attr_set_path(Top.sc, Top.bt, ret.v, Front(Node(Top.nd).attrs)))
    /\ UNCHANGED <<lib, prog, heap, FILE_CACHE, ret, status, obs>>

\* A select that leaves its default aside
SelectSetResolvedNoDefault ==
    /\ At("visit_select", "set_resolved")
    /\ ret.ok
    /\ LET attr == Last(Node(Top.nd).attrs)
       IN  IF ~is_attr_set(ret.v)
           THEN Panic
           ELSE /\ IF attr \in DOMAIN values[ret.v].m
                   THEN Return(Ok(values[ret.v].m[attr]))
                   ELSE Return(Err(Error("AttributeMissing", <<Top.nd>>)))
                /\ UNCHANGED status
    /\ UNCHANGED <<lib, prog, heap, FILE_CACHE, obs>>

\* resolve_attr_path: the thunk of the last name, or AttributeMissing; and
\* visit_select: the default, if there is one, when the attribute is missing
SelectSetResolved ==
    /\ At("visit_select", "set_resolved")
    /\ ret.ok
    /\ LET attr == Last(Node(Top.nd).attrs)
       IN  IF ~is_attr_set(ret.v)
           THEN Panic
           ELSE /\ IF attr \in DOMAIN values[ret.v].m
                   THEN Return(Ok(values[ret.v].m[attr]))
                   ELSE IF Node(Top.nd).default
                   THEN /\ Become(visit_expr(Top.sc, Top.bt, Child(Top.nd, 2)))
                        /\ UNCHANGED ret
                   ELSE Return(Err(Error("AttributeMissing", <<Top.nd>>)))
                /\ UNCHANGED status
    /\ UNCHANGED <<lib, prog, heap, FILE_CACHE, obs>>

\* visit_hasattr: the expression is visited
VisitHasAttr ==
    /\ VisitStart("HasAttr")
    /\ Call([Top EXCEPT !.fn = "visit_hasattr", !.pc = "visited",
                        !.bt = Visit(Top.bt, Top.nd)],
            visit_expr(Top.sc, Visit(Top.bt, Top.nd), Child(Top.nd, 1)))
    /\ UNCHANGED <<lib, prog, heap, FILE_CACHE, ret, status, evals, forced, reads, history>>

\* resolve_attr_path works on the forced value of the expression
HasAttrVisited ==
    /\ At("visit_hasattr", "visited")
    /\ ret.ok
    /\ Call([Top EXCEPT !.pc = "forced"], NixVar_resolve(ret.v, Top.bt))
    /\ UNCHANGED <<lib, prog, heap, FILE_CACHE, ret, status, obs>>

\* resolve_attr_path: the set of the path before its last name
HasAttrForced ==
    /\ At("visit_hasattr", "forced")
    /\ ret.ok
    /\ Call([Top EXCEPT !.pc = "set_resolved"],
            resolve_attr_set_path(Top.sc, Top.bt, ret.v, Front(Node(Top.nd).attrs)))
    /\ UNCHANGED <<lib, prog, heap, FILE_CACHE, ret, status, obs>>

\* visit_hasattr: whether resolve_attr_path found the last name, as a Bool
HasAttrSetResolved ==
    /\ At("visit_hasattr", "set_resolved")
    /\ ret.ok
    /\ IF ~is_attr_set(ret.v)
       THEN Panic /\ UNCHANGED <<thunks, values>>
       ELSE /\ ReturnVar(VBool(Last(Node(Top.nd).attrs) \in DOMAIN values[ret.v].m))
            /\ UNCHANGED status
    /\ UNCHANGED <<lib, prog, scopes, FILE_CACHE, obs>>

\* visit_assert: the condition is visited, then forced
VisitAssert ==
    /\ VisitStart("Assert")
    /\ Call([Top EXCEPT !.fn = "visit_assert", !.pc = "visited",
                        !.bt = Visit(Top.bt, Top.nd)],
            visit_expr(Top.sc, Visit(Top.bt, Top.nd), Child(Top.nd, 1)))
    /\ UNCHANGED <<lib, prog, heap, FILE_CACHE, ret, status, evals, forced, reads, history>>

AssertVisited ==
    /\ At("visit_assert", "visited")
    /\ ret.ok
    /\ Call([Top EXCEPT !.pc = "resolved"], NixVar_resolve(ret.v, Top.bt))
    /\ UNCHANGED <<lib, prog, heap, FILE_CACHE, ret, status, obs>>

\* visit_assert: the body if the condition is true, "assert failed" if not
AssertResolved ==
    /\ At("visit_assert", "resolved")
    /\ ret.ok
    /\ IF values[ret.v].t # "bool"
       THEN Panic
       ELSE /\ IF values[ret.v].b
               THEN Become(visit_expr(Top.sc, Top.bt, Child(Top.nd, 2))) /\ UNCHANGED ret
               ELSE Return(Err(Error("AssertFailed", <<Child(Top.nd, 1)>>)))
            /\ UNCHANGED status
    /\ UNCHANGED <<lib, prog, heap, FILE_CACHE, obs>>

\* visit_with: the namespace is visited, then forced
VisitWith ==
    /\ VisitStart("With")
    /\ Call([Top EXCEPT !.fn = "visit_with", !.pc = "visited",
                        !.bt = Visit(Top.bt, Top.nd)],
            visit_expr(Top.sc, Visit(Top.bt, Top.nd), Child(Top.nd, 1)))
    /\ UNCHANGED <<lib, prog, heap, FILE_CACHE, ret, status, evals, forced, reads, history>>

WithVisited ==
    /\ At("visit_with", "visited")
    /\ ret.ok
    /\ Call([Top EXCEPT !.pc = "resolved"], NixVar_resolve(ret.v, Top.bt))
    /\ UNCHANGED <<lib, prog, heap, FILE_CACHE, ret, status, obs>>

\* visit_with: the body is visited in a child scope whose variables are the
\* namespace set itself (new_child_from)
WithResolved ==
    /\ At("visit_with", "resolved")
    /\ ret.ok
    /\ IF ~is_attr_set(ret.v)
       THEN Panic /\ UNCHANGED scopes
       ELSE /\ scopes' = Append(scopes, Scope(Top.nd.f, ret.v, Top.sc))
            /\ Become(visit_expr(Len(scopes) + 1, Top.bt, Child(Top.nd, 2)))
            /\ UNCHANGED status
    /\ UNCHANGED <<lib, prog, thunks, values, FILE_CACHE, ret, obs>>

\* visit_apply: the function is visited, then forced
VisitApply ==
    /\ VisitStart("Apply")
    /\ Call([Top EXCEPT !.fn = "visit_apply", !.pc = "visited",
                        !.bt = Visit(Top.bt, Top.nd)],
            visit_expr(Top.sc, Child(Top.nd, 1), Child(Top.nd, 1)))
    /\ UNCHANGED <<lib, prog, heap, FILE_CACHE, ret, status, evals, forced, reads, history>>

ApplyVisited ==
    /\ At("visit_apply", "visited")
    /\ ret.ok
    /\ Call([Top EXCEPT !.pc = "resolved"], NixVar_resolve(ret.v, Child(Top.nd, 1)))
    /\ UNCHANGED <<lib, prog, heap, FILE_CACHE, ret, status, obs>>

\* visit_apply: the value has to be a function; the argument is visited
ApplyResolved ==
    /\ At("visit_apply", "resolved")
    /\ ret.ok
    /\ IF values[ret.v].t \in {"lambda", "builtin"}
       THEN /\ Call([Top EXCEPT !.pc = "argument", !.v = ret.v, !.bt = Child(Top.nd, 2)],
                    visit_expr(Top.sc, Child(Top.nd, 2), Child(Top.nd, 2)))
            /\ UNCHANGED status
       ELSE Panic
    /\ UNCHANGED <<lib, prog, heap, FILE_CACHE, ret, obs>>

\* Whether the parameter of a lambda is a pattern (NixLambdaParam::Pattern)
IsPattern(l) == Node(Span(l.body.f, Front(l.body.p))).pattern

\* The frames the stack of the process has room for
MaxStack == 24

\* NixLambda::call of a lambda: the parameter is bound to the argument in a
\* new child of the lambda's scope, where the body is visited
CallLambda ==
    /\ At("visit_apply", "argument")
    /\ ret.ok
    /\ values[Top.v].t = "lambda"
    /\ ~IsPattern(values[Top.v])
    /\ Len(stack) < MaxStack
    /\ LET l == values[Top.v]
       IN  /\ values' = Append(values, VAttrSet(l.param :> ret.v))
           /\ scopes' = Append(scopes, Scope(scopes[l.scope].file, Len(values) + 1,
                                             l.scope))
           /\ Call([Top EXCEPT !.pc = "called"],
                   visit_expr(Len(scopes) + 1, Top.bt, l.body))
    /\ UNCHANGED <<lib, prog, thunks, FILE_CACHE, ret, status, obs>>

\* visit_apply returns what the body of the lambda has given
CallLambdaReturned ==
    /\ At("visit_apply", "called")
    /\ ret.ok
    /\ stack' = Rest
    /\ UNCHANGED <<lib, prog, heap, FILE_CACHE, ret, status, obs>>

\* A call of a lambda, or a resolve_set of a thunk of a set, that the stack
\* has no room for ends the process (the guard page of the main thread is
\* hit: SIGSEGV, no error value)
StackOverflow ==
    /\ \/ /\ At("visit_apply", "argument") \/ At("visit_apply", "pattern")
          /\ values[Top.v].t = "lambda"
       \/ /\ At("resolve_set", "recursing")
          /\ Top.i <= Len(Top.xs)
    /\ ret.ok
    /\ Len(stack) >= MaxStack
    /\ status' = "overflow"
    /\ UNCHANGED <<lib, prog, heap, FILE_CACHE, stack, ret, obs>>

\* NixLambda::call of a lambda with a pattern: the argument is forced
CallPattern ==
    /\ At("visit_apply", "argument")
    /\ ret.ok
    /\ values[Top.v].t = "lambda"
    /\ IsPattern(values[Top.v])
    /\ Call([Top EXCEPT !.pc = "pattern"], NixVar_resolve(ret.v, Top.bt))
    /\ UNCHANGED <<lib, prog, heap, FILE_CACHE, ret, status, obs>>

\* NixLambda::call of a lambda with a pattern: the name after `@` is bound to
\* the argument; every entry to the argument's thunk of its name, or to a
\* Pending thunk of its default; an entry without either, or a name of the
\* argument that no entry has when there is no ellipsis, is a todo!
CallPatternResolved ==
    /\ At("visit_apply", "pattern")
    /\ ret.ok
    /\ Len(stack) < MaxStack
    /\ LET l == values[Top.v]
           lambda == Span(l.body.f, Front(l.body.p))
           pat == Node(lambda).param
           ns == Len(scopes) + 1
           nt == Len(thunks) + (IF pat.bind = "" THEN 0 ELSE 1)
           entries == 1..Len(pat.names)
           given(i) == pat.names[i] \in DOMAIN values[ret.v].m
           defaulted == {i \in entries : ~given(i)}
           place(i) == Cardinality({j \in defaulted : j <= i})
           unused == DOMAIN values[ret.v].m \ {pat.names[i] : i \in entries}
           bound == [n \in {pat.names[i] : i \in entries} |->
                        LET i == CHOOSE j \in entries :
                                     /\ pat.names[j] = n
                                     /\ \A h \in entries : pat.names[h] = n => h <= j
                        IN  IF given(i) THEN values[ret.v].m[n] ELSE nt + place(i)]
           all == IF pat.bind = "" THEN bound
                  ELSE [n \in DOMAIN bound \ {pat.bind} |-> bound[n]]
                           @@ (pat.bind :> Len(thunks) + 1)
       IN  IF \/ ~is_attr_set(ret.v)
              \/ \E i \in defaulted : Node(Child(lambda, i + 1)) = NoDefault
              \/ ~pat.ellipsis /\ unused # {}
           THEN Panic /\ UNCHANGED heap
           ELSE /\ thunks' = thunks
                        \o (IF pat.bind = "" THEN <<>> ELSE <<Concrete(ret.v)>>)
                        \o [h \in 1..Cardinality(defaulted) |->
                               LET i == CHOOSE j \in defaulted : place(j) = h
                               IN  Pending(Top.bt, ns, Child(lambda, i + 1))]
                /\ values' = Append(values, VAttrSet(all))
                /\ scopes' = Append(scopes, Scope(scopes[l.scope].file, Len(values) + 1,
                                                  l.scope))
                /\ Call([Top EXCEPT !.pc = "called"], visit_expr(ns, Top.bt, l.body))
                /\ UNCHANGED status
    /\ UNCHANGED <<lib, prog, FILE_CACHE, ret, obs>>

\* A builtin applied to an argument that is not its last one becomes a
\* builtin that keeps the cell it was applied to as its own
CallBuiltinPartialInPlace ==
    /\ At("visit_apply", "argument")
    /\ ret.ok
    /\ values[Top.v].t = "builtin"
    /\ Len(values[Top.v].args) + 1 < Arity(values[Top.v].name)
    /\ values' = [values EXCEPT ![Top.v].args = Append(@, ret.v)]
    /\ Become([Top EXCEPT !.pc = "ran"])
    /\ ret' = Ok(Top.v)
    /\ UNCHANGED <<lib, prog, thunks, scopes, FILE_CACHE, status, obs>>

\* NixBuiltin::run with a parameter before the last one still None: a new
\* builtin that holds the arguments captured so far and this one
CallBuiltinPartial ==
    /\ At("visit_apply", "argument")
    /\ ret.ok
    /\ values[Top.v].t = "builtin"
    /\ Len(values[Top.v].args) + 1 < Arity(values[Top.v].name)
    /\ values' = Append(values, VPartial(values[Top.v].name,
                                         Append(values[Top.v].args, ret.v)))
    /\ Become([Top EXCEPT !.pc = "ran"])
    /\ ret' = Ok(Len(values) + 1)
    /\ UNCHANGED <<lib, prog, thunks, scopes, FILE_CACHE, status, obs>>

\* NixLambda::call of a builtin that has all its parameters: its native body
\* runs on the captured arguments and this one
CallBuiltin ==
    /\ At("visit_apply", "argument")
    /\ ret.ok
    /\ values[Top.v].t = "builtin"
    /\ Len(values[Top.v].args) + 1 = Arity(values[Top.v].name)
    /\ Call([Top EXCEPT !.pc = "ran"],
            [Frame(values[Top.v].name, "start") EXCEPT
                !.t = ret.v, !.xs = Append(values[Top.v].args, ret.v), !.bt = Top.bt])
    /\ UNCHANGED <<lib, prog, heap, FILE_CACHE, ret, status, obs>>

\* NixLambda::call of a builtin: the result is wrapped in a Concrete thunk
CallBuiltinRan ==
    /\ At("visit_apply", "ran")
    /\ ret.ok
    /\ thunks' = Append(thunks, Concrete(ret.v))
    /\ Return(Ok(Len(thunks) + 1))
    /\ UNCHANGED <<lib, prog, values, scopes, FILE_CACHE, status, obs>>

\* The argument of import is coerced to a forced value
Import ==
    /\ At("import", "start")
    /\ Call([Top EXCEPT !.pc = "coerced"], NixVar_resolve(Top.t, Top.bt))
    /\ UNCHANGED <<lib, prog, heap, FILE_CACHE, ret, status, obs>>

\* builtins import: the file at the path, through the file cache
ImportPath ==
    /\ At("import", "coerced")
    /\ ret.ok
    /\ IF values[ret.v].t = "path"
       THEN Become(get_file(values[ret.v].path)) /\ UNCHANGED status
       ELSE Panic
    /\ UNCHANGED <<lib, prog, heap, FILE_CACHE, ret, obs>>

\* builtins tryEval: the argument is forced
TryEval ==
    /\ At("try_eval", "start")
    /\ Call([Top EXCEPT !.pc = "resolved"], NixVar_resolve(Top.t, Top.bt))
    /\ UNCHANGED <<lib, prog, heap, FILE_CACHE, ret, status, obs>>

\* builtins tryEval: { success = false; value = false; } on an error of the
\* force, { success = true; value = argument; } otherwise
TryEvalResolved ==
    /\ At("try_eval", "resolved")
    /\ LET nv == Len(values)
           nt == Len(thunks)
       IN  IF ret.ok
           THEN /\ values' = values \o
                       << VBool(TRUE), VAttrSet(("success" :> nt + 1) @@ ("value" :> Top.t)) >>
                /\ thunks' = Append(thunks, Concrete(nv + 1))
                /\ Return(Ok(nv + 2))
           ELSE /\ values' = values \o
                       << VBool(FALSE), VBool(FALSE),
                          VAttrSet(("success" :> nt + 1) @@ ("value" :> nt + 2)) >>
                /\ thunks' = thunks \o << Concrete(nv + 1), Concrete(nv + 2) >>
                /\ Return(Ok(nv + 3))
    /\ UNCHANGED <<lib, prog, scopes, FILE_CACHE, status, obs>>

\* The argument of throw is coerced to a forced value
Throw ==
    /\ At("throw", "start")
    /\ Call([Top EXCEPT !.pc = "coerced"], NixVar_resolve(Top.t, Top.bt))
    /\ UNCHANGED <<lib, prog, heap, FILE_CACHE, ret, status, obs>>

\* builtins throw: the error is printed and the process exits with code 1
\* (std::process::exit); nothing is returned to the caller
ThrowMessage ==
    /\ At("throw", "coerced")
    /\ ret.ok
    /\ IF values[ret.v].t = "string"
       THEN status' = "exit" /\ UNCHANGED <<stack, ret>>
       ELSE Panic
    /\ UNCHANGED <<lib, prog, heap, FILE_CACHE, obs>>

\* A text is the sequence of its characters
Digits == <<"0", "1", "2", "3", "4", "5", "6", "7", "8", "9">>
IsDigit(c) == \E d \in 1..10 : Digits[d] = c
DigitOf(c) == (CHOOSE d \in 1..10 : Digits[d] = c) - 1

\* str::split("."): the pieces between the dots, empty ones included
RECURSIVE Split(_)
Split(text) ==
    IF \A i \in 1..Len(text) : text[i] # "." THEN <<text>>
    ELSE LET i == CHOOSE j \in 1..Len(text) :
                      text[j] = "." /\ \A h \in 1..(j - 1) : text[h] # "."
         IN  <<SubSeq(text, 1, i - 1)>> \o Split(SubSeq(text, i + 1, Len(text)))

\* str::parse::<u8>: the number of a text of digits up to 255, or -1 (Err)
RECURSIVE ParseDigits(_, _)
ParseDigits(text, n) ==
    IF text = <<>> THEN n
    ELSE IF ~IsDigit(Head(text)) \/ 10 * n + DigitOf(Head(text)) > 255 THEN -1
    ELSE ParseDigits(Tail(text), 10 * n + DigitOf(Head(text)))
ParseU8(text) == IF text = <<>> THEN -1 ELSE ParseDigits(text, 0)

\* compare_versions: the pieces of the two texts are zipped and compared as
\* u8 numbers, the first difference decides; 2 stands for the panic of unwrap
RECURSIVE CompareZip(_, _)
CompareZip(first_arg, second_arg) ==
    IF first_arg = <<>> \/ second_arg = <<>> THEN 0
    ELSE LET first == ParseU8(Head(first_arg))
             second == ParseU8(Head(second_arg))
         IN  IF first < 0 \/ second < 0 THEN 2
             ELSE IF first < second THEN -1
             ELSE IF first > second THEN 1
             ELSE CompareZip(Tail(first_arg), Tail(second_arg))

\* The parameters of compare_versions are coerced to String in their order
CompareVersions ==
    /\ At("compare_versions", "start")
    /\ Call([Top EXCEPT !.pc = "first"], NixVar_resolve(Top.xs[1], Top.bt))
    /\ UNCHANGED <<lib, prog, heap, FILE_CACHE, ret, status, obs>>

CompareVersionsFirst ==
    /\ At("compare_versions", "first")
    /\ ret.ok
    /\ IF values[ret.v].t = "string"
       THEN /\ Call([Top EXCEPT !.pc = "second", !.v = ret.v],
                    NixVar_resolve(Top.xs[2], Top.bt))
            /\ UNCHANGED status
       ELSE Panic
    /\ UNCHANGED <<lib, prog, heap, FILE_CACHE, ret, obs>>

\* builtins compareVersions: -1, 0 or 1 as an Int
CompareVersionsSecond ==
    /\ At("compare_versions", "second")
    /\ ret.ok
    /\ LET n == CompareZip(Split(values[Top.v].s), Split(values[ret.v].s))
       IN  IF values[ret.v].t # "string" \/ n = 2
           THEN Panic /\ UNCHANGED values
           ELSE /\ values' = Append(values, VInt(n))
                /\ Return(Ok(Len(values) + 1))
                /\ UNCHANGED status
    /\ UNCHANGED <<lib, prog, thunks, scopes, FILE_CACHE, obs>>

\* visit_binop: the left operand is visited, then forced
VisitBinOp ==
    /\ VisitStart("BinOp")
    /\ Call([Top EXCEPT !.fn = "visit_binop", !.pc = "lhs_visited",
                        !.bt = Visit(Top.bt, Top.nd)],
            visit_expr(Top.sc, Visit(Top.bt, Top.nd), Child(Top.nd, 1)))
    /\ UNCHANGED <<lib, prog, heap, FILE_CACHE, ret, status, evals, forced, reads, history>>

BinOpLhsVisited ==
    /\ At("visit_binop", "lhs_visited")
    /\ ret.ok
    /\ Call([Top EXCEPT !.pc = "lhs_resolved"], NixVar_resolve(ret.v, Top.bt))
    /\ UNCHANGED <<lib, prog, heap, FILE_CACHE, ret, status, obs>>

BinOpLhs(op) ==
    /\ At("visit_binop", "lhs_resolved")
    /\ ret.ok
    /\ Node(Top.nd).op = op

\* A boolean operator that visits its right operand whatever the left one is
ShortCircuitEager(skip, result) ==
    IF values[ret.v].t # "bool"
    THEN Panic /\ UNCHANGED heap
    ELSE /\ Become(visit_expr(Top.sc, Top.bt, Child(Top.nd, 2)))
         /\ UNCHANGED <<heap, ret, status>>

\* A boolean operator whose left operand is `skip` is `result` without its
\* right operand; otherwise it is what the visit of the right operand gives
ShortCircuit(skip, result) ==
    IF values[ret.v].t # "bool"
    THEN Panic /\ UNCHANGED heap
    ELSE /\ IF values[ret.v].b = skip
            THEN ReturnVar(VBool(result)) /\ UNCHANGED scopes
            ELSE /\ Become(visit_expr(Top.sc, Top.bt, Child(Top.nd, 2)))
                 /\ UNCHANGED <<heap, ret>>
         /\ UNCHANGED status

\* visit_binop, `&&`
BinOpAnd ==
    /\ BinOpLhs("&&")
    /\ ShortCircuit(FALSE, FALSE)
    /\ UNCHANGED <<lib, prog, FILE_CACHE, obs>>

\* visit_binop, `||`
BinOpOr ==
    /\ BinOpLhs("||")
    /\ ShortCircuit(TRUE, TRUE)
    /\ UNCHANGED <<lib, prog, FILE_CACHE, obs>>

\* visit_binop, `->`
BinOpImplication ==
    /\ BinOpLhs("->")
    /\ ShortCircuit(FALSE, TRUE)
    /\ UNCHANGED <<lib, prog, FILE_CACHE, obs>>

\* visit_binop, `//`: an UpdateResolve thunk of the forced left operand and
\* the expression of the right operand
BinOpUpdate ==
    /\ BinOpLhs("//")
    /\ IF is_attr_set(ret.v)
       THEN /\ thunks' = Append(thunks, UpdateResolve(ret.v, Child(Top.nd, 2), Top.bt,
                                                      Top.sc))
            /\ Return(Ok(Len(thunks) + 1))
            /\ UNCHANGED status
       ELSE Panic /\ UNCHANGED thunks
    /\ UNCHANGED <<lib, prog, values, scopes, FILE_CACHE, obs>>

\* visit_binop, `==`: the right operand is visited, then forced
BinOpEqual ==
    /\ BinOpLhs("==")
    /\ Call([Top EXCEPT !.pc = "rhs_visited", !.v = ret.v],
            visit_expr(Top.sc, Top.bt, Child(Top.nd, 2)))
    /\ UNCHANGED <<lib, prog, heap, FILE_CACHE, ret, status, obs>>

BinOpRhsVisited ==
    /\ At("visit_binop", "rhs_visited")
    /\ ret.ok
    /\ Call([Top EXCEPT !.pc = "rhs_resolved"], NixVar_resolve(ret.v, Top.bt))
    /\ UNCHANGED <<lib, prog, heap, FILE_CACHE, ret, status, obs>>

value_try_eq(self, other, bt) ==
    [Frame("value_try_eq", "start") EXCEPT !.v = self, !.w = other, !.bt = bt]

\* visit_binop, `==`: the right value is compared with the left one
BinOpRhsResolved ==
    /\ At("visit_binop", "rhs_resolved")
    /\ ret.ok
    /\ Call([Top EXCEPT !.pc = "compared"], value_try_eq(ret.v, Top.v, Top.bt))
    /\ UNCHANGED <<lib, prog, heap, FILE_CACHE, ret, status, obs>>

\* visit_binop, `==`: the boolean in a new cell
BinOpCompared ==
    /\ At("visit_binop", "compared")
    /\ ret.ok
    /\ ReturnVar(VBool(ret.b))
    /\ UNCHANGED <<lib, prog, scopes, FILE_CACHE, status, obs>>

-----------------------------------------------------------------------------
(* Equality: NixValue::try_eq and LazyNixValue::try_eq *)

\* NixValue::try_eq on two values that are not both sets
ScalarEq(a, b) ==
    CASE a.t = "bool" /\ b.t = "bool" -> a.b = b.b
      [] a.t = "int" /\ b.t = "int" -> a.n = b.n
      [] a.t = "null" /\ b.t = "null" -> TRUE
      [] a.t = "path" /\ b.t = "path" -> a.path = b.path
      [] a.t = "string" /\ b.t = "string" -> a.s = b.s
      [] a.t = "list" /\ b.t = "list" -> a.items = b.items
      [] OTHER -> FALSE

\* A comparison of sets that does not compare their sizes first
ValueTryEqNoLen ==
    /\ At("value_try_eq", "start")
    /\ LET a == values[Top.v]
           b == values[Top.w]
       IN  IF a.t = "attrs" /\ b.t = "attrs"
           THEN Become([Top EXCEPT !.pc = "zip", !.i = 1]) /\ ret' = OkBool(TRUE)
           ELSE Return(OkBool(ScalarEq(a, b)))
    /\ UNCHANGED <<lib, prog, heap, FILE_CACHE, status, obs>>

\* NixValue::try_eq: two sets of different sizes are different; two values
\* that are not both sets are compared at once
ValueTryEq ==
    /\ At("value_try_eq", "start")
    /\ LET a == values[Top.v]
           b == values[Top.w]
       IN  IF a.t = "attrs" /\ b.t = "attrs"
           THEN IF Cardinality(DOMAIN a.m) # Cardinality(DOMAIN b.m)
                THEN Return(OkBool(FALSE))
                ELSE Become([Top EXCEPT !.pc = "zip", !.i = 1]) /\ ret' = OkBool(TRUE)
           ELSE Return(OkBool(ScalarEq(a, b)))
    /\ UNCHANGED <<lib, prog, heap, FILE_CACHE, status, obs>>

lazy_try_eq(lhs, rhs, bt) ==
    [Frame("lazy_try_eq", "start") EXCEPT !.t = lhs, !.w = rhs, !.bt = bt]

\* NixValue::try_eq on two sets: the entries of both in the order of their
\* keys, pair by pair, until a pair differs in its key or in its values
ValueTryEqZip ==
    /\ At("value_try_eq", "zip")
    /\ ret.ok
    /\ LET a == values[Top.v].m
           b == values[Top.w].m
       IN  IF ~ret.b
           THEN Return(OkBool(FALSE))
           ELSE IF Top.i > Len(Keys(a)) \/ Top.i > Len(Keys(b))
           THEN Return(OkBool(TRUE))
           ELSE IF Keys(a)[Top.i] # Keys(b)[Top.i]
           THEN Return(OkBool(FALSE))
           ELSE /\ Call([Top EXCEPT !.i = Top.i + 1],
                        lazy_try_eq(a[Keys(a)[Top.i]], b[Keys(b)[Top.i]], Top.bt))
                /\ UNCHANGED ret
    /\ UNCHANGED <<lib, prog, heap, FILE_CACHE, status, obs>>

\* LazyNixValue::try_eq: both thunks are forced by LazyNixValue::resolve
LazyTryEq ==
    /\ At("lazy_try_eq", "start")
    /\ Call([Top EXCEPT !.pc = "lhs"],
            [resolve(Top.t, Top.bt) EXCEPT !.again = Seen(forced, Top.t) # {}])
    /\ UNCHANGED <<lib, prog, heap, FILE_CACHE, ret, status, obs>>

LazyTryEqLhs ==
    /\ At("lazy_try_eq", "lhs")
    /\ ret.ok
    /\ forced' = Log(forced, Top.t, ret.v)
    /\ Call([Top EXCEPT !.pc = "rhs", !.v = ret.v],
            [resolve(Top.w, Top.bt) EXCEPT !.again = Seen(forced', Top.w) # {}])
    /\ UNCHANGED <<lib, prog, heap, FILE_CACHE, ret, status, evals, reads, visits, history>>

\* LazyNixValue::try_eq: the same cell is equal to itself; two cells are
\* compared by NixValue::try_eq
LazyTryEqRhs ==
    /\ At("lazy_try_eq", "rhs")
    /\ ret.ok
    /\ forced' = Log(forced, Top.w, ret.v)
    /\ IF Top.v = ret.v
       THEN Return(OkBool(TRUE))
       ELSE Become(value_try_eq(Top.v, ret.v, Top.bt)) /\ UNCHANGED ret
    /\ UNCHANGED <<lib, prog, heap, FILE_CACHE, status, evals, reads, visits, history>>

-----------------------------------------------------------------------------
(* LazyNixValue::resolve_set *)

\* resolve_set: the thunk itself is forced by LazyNixValue::resolve
ResolveSet ==
    /\ At("resolve_set", "start")
    /\ Call([Top EXCEPT !.pc = "self_resolved"],
            [resolve(Top.t, Top.bt) EXCEPT !.again = Seen(forced, Top.t) # {}])
    /\ UNCHANGED <<lib, prog, heap, FILE_CACHE, ret, status, obs>>

\* resolve_set: the thunks of a set, collected in the order of its keys, or the
\* thunks of a list
ResolveSetSelf ==
    /\ At("resolve_set", "self_resolved")
    /\ ret.ok
    /\ forced' = Log(forced, Top.t, ret.v)
    /\ IF is_attr_set(ret.v)
       THEN /\ Become([Top EXCEPT !.pc = "resolving", !.v = ret.v, !.i = 1,
                          !.xs = [j \in 1..Len(Keys(values[ret.v].m)) |->
                                     values[ret.v].m[Keys(values[ret.v].m)[j]]]])
            /\ UNCHANGED ret
       ELSE IF values[ret.v].t = "list"
       THEN /\ Become([Top EXCEPT !.pc = "resolving", !.v = ret.v, !.i = 1,
                          !.xs = values[ret.v].items])
            /\ UNCHANGED ret
       ELSE Return(ret)
    /\ UNCHANGED <<lib, prog, heap, FILE_CACHE, status, evals, reads, visits, history>>

\* resolve_set: every thunk of the set is forced
ResolveSetValues ==
    /\ At("resolve_set", "resolving")
    /\ ret.ok
    /\ IF Top.i <= Len(Top.xs)
       THEN Call([Top EXCEPT !.i = Top.i + 1], NixVar_resolve(Top.xs[Top.i], Top.bt))
       ELSE Become([Top EXCEPT !.pc = "recursing", !.i = 1])
    /\ UNCHANGED <<lib, prog, heap, FILE_CACHE, ret, status, obs>>

\* resolve_set, recursive: then every thunk of the set is forced in depth
ResolveSetRecursive ==
    /\ At("resolve_set", "recursing")
    /\ ret.ok
    /\ IF Top.i <= Len(Top.xs)
       THEN /\ Len(stack) < MaxStack
            /\ Call([Top EXCEPT !.i = Top.i + 1], resolve_set(Top.xs[Top.i], Top.bt))
            /\ UNCHANGED ret
       ELSE Return(Ok(Top.v))
    /\ UNCHANGED <<lib, prog, heap, FILE_CACHE, status, obs>>

-----------------------------------------------------------------------------
(* The inputs: the expression of the main file *)

True == Id("true")
False == Id("false")
\* `assert false; 1`
Fail == AssertE(False, Lit(1))
\* `builtins.tryEval e`
TryEvalOf(e) == Apply(Select(Id("builtins"), <<"tryEval">>), e)
ImportOf(p) == Apply(Id("import"), PathLit(p))

\* let x = x; in x
SelfReference == Let1(<<"x">>, <<Id("x")>>, Id("x"))

\* let x = y; y = x; in x
MutualReference == Let1(<<"x", "y">>, <<Id("y"), Id("x")>>, Id("x"))

Programs ==
    { SelfReference, MutualReference,
      \* let x = 1; in { a = x; b = x; }
      Let1(<<"x">>, <<Lit(1)>>, Set1(<<"a", "b">>, <<Id("x"), Id("x")>>)),
      \* let x = assert false; 1; in (builtins.tryEval x).success || x
      Let1(<<"x">>, <<Fail>>,
           BinOp("||", Select(TryEvalOf(Id("x")), <<"success">>), Id("x"))),
      \* let u = { a = 1; } // (assert false; { }); in (builtins.tryEval u).success || u.a
      Let1(<<"u">>,
           <<BinOp("//", Set1(<<"a">>, <<Lit(1)>>), AssertE(False, Set1(<<>>, <<>>)))>>,
           BinOp("||", Select(TryEvalOf(Id("u")), <<"success">>),
                       Select(Id("u"), <<"a">>))),
      \* let s = { p = { a = 1; } // ({ b = 1; } // { c = 1; }); }; in s == s
      Let1(<<"s">>,
           <<Set1(<<"p">>,
                  <<BinOp("//", Set1(<<"a">>, <<Lit(1)>>),
                          Paren(BinOp("//", Set1(<<"b">>, <<Lit(1)>>),
                                            Set1(<<"c">>, <<Lit(1)>>))))>>)>>,
           BinOp("==", Id("s"), Id("s"))),
      \* { p = { a = 1; } // ({ b = 1; } // { c = 1; }); } == { p = { a = 1; b = 1; }; }
      BinOp("==",
            Set1(<<"p">>,
                 <<BinOp("//", Set1(<<"a">>, <<Lit(1)>>),
                         Paren(BinOp("//", Set1(<<"b">>, <<Lit(1)>>),
                                           Set1(<<"c">>, <<Lit(1)>>))))>>),
            Set1(<<"p">>, <<Set1(<<"a", "b">>, <<Lit(1), Lit(1)>>)>>)),
      \* (u: (builtins.tryEval u).success || u.a) ({ a = 1; } // (assert false; { }))
      Apply(Paren(Lambda("u", BinOp("||", Select(TryEvalOf(Id("u")), <<"success">>),
                                          Select(Id("u"), <<"a">>)))),
            Paren(BinOp("//", Set1(<<"a">>, <<Lit(1)>>),
                              Paren(AssertE(False, Set1(<<>>, <<>>)))))),
      \* let x = 1; in { inherit x; }
      Let1(<<"x">>, <<Lit(1)>>, AttrSet(<<Inherit("x")>>, <<Id("x")>>)),
      \* { inherit y; }
      AttrSet(<<Inherit("y")>>, <<Id("y")>>),
      \* { a.b = 1; a.c = 2; }
      AttrSet(<<Bind(<<"a", "b">>), Bind(<<"a", "c">>)>>, <<Lit(1), Lit(2)>>),
      \* rec { a = 1; b = a; }
      RecAttrSet(<<Bind(<<"a">>), Bind(<<"b">>)>>, <<Lit(1), Id("a")>>),
      \* (x: x) 1
      Apply(Paren(Lambda("x", Id("x"))), Lit(1)),
      \* { }.a or 1
      SelectOr(Set1(<<>>, <<>>), <<"a">>, Lit(1)),
      \* { a = { b = 1; }; }.a.b
      Select(Set1(<<"a">>, <<Set1(<<"b">>, <<Lit(1)>>)>>), <<"a", "b">>) }

\* let x = assert false; 1; in l op r, for the three boolean operators that
\* may leave their right operand alone
BoolOps == {"&&", "||", "->"}
Operands == {Fail, Id("x"), Id("y"), Paren(SelfReference), Lit(1), True, False}
ShortCircuitPrograms ==
    {Let1(<<"x">>, <<Fail>>, BinOp(op, l, r)) :
        op \in BoolOps, l \in {True, False}, r \in Operands}

\* (l // r).n for the sets l and r that bind each of a and b to an integer, to
\* a failing assert, or not at all
SetsOf(e) ==
    {Set1(<<>>, <<>>)} \cup {Set1(<<n>>, <<v>>) : n \in {"a", "b"}, v \in {e, Fail}}
        \cup {Set1(<<"a", "b">>, <<v, w>>) : v \in {e, Fail}, w \in {e, Fail}}
SelectPrograms ==
    {Select(Paren(BinOp("//", l, r)), <<n>>) :
        l \in SetsOf(Lit(1)), r \in SetsOf(Lit(2)), n \in {"a", "b"}}

\* let x = import p; y = import q; in
\*   { a = (builtins.tryEval x).success; b = (builtins.tryEval y).success; }
Paths == {"a.nix", "./a.nix", "dir/../a.nix", "dir", "dir/default.nix", "bad.nix",
          "fail.nix"}
ImportPrograms ==
    {Let1(<<"x", "y">>, <<ImportOf(p), ImportOf(q)>>,
          Set1(<<"a", "b">>, <<Select(TryEvalOf(Id("x")), <<"success">>),
                               Select(TryEvalOf(Id("y")), <<"success">>)>>)) :
        p \in Paths, q \in Paths}

\* import p, and let x = import p; in x, for the files that import themselves:
\* cyc.nix directly, c1.nix and c2.nix through each other, and the main file
CircularPaths == {"cyc.nix", "c1.nix", "c2.nix", MainPath}
CircularPrograms ==
    {ImportOf(p) : p \in CircularPaths}
        \cup {Let1(<<"x">>, <<ImportOf(p)>>, Id("x")) : p \in CircularPaths}

\* l == r for the sets that bind a, b, both in either written order, or
\* neither, to the integers 1..MaxInt, and for three pairs of nested sets
Ints == {Lit(n) : n \in 1..MaxInt}
IntSets ==
    {Set1(<<>>, <<>>)} \cup {Set1(<<n>>, <<v>>) : n \in {"a", "b"}, v \in Ints}
        \cup {Set1(<<"a", "b">>, <<v, w>>) : v \in Ints, w \in Ints}
        \cup {Set1(<<"b", "a">>, <<v, w>>) : v \in Ints, w \in Ints}
NestedSet(e) == Set1(<<"a">>, <<e>>)
EqPrograms ==
    {BinOp("==", l, r) : l \in IntSets, r \in IntSets}
        \cup {BinOp("==", NestedSet(Set1(<<"b">>, <<Lit(1)>>)), NestedSet(r)) :
                  r \in {Set1(<<"b">>, <<Lit(1)>>), Set1(<<"b">>, <<Lit(2)>>), Lit(1)}}

\* l == r for the lists of at most two integers, and l == l for such a list
\* bound by a let
IntLists ==
    {List(<<>>)} \cup {List(<<v>>) : v \in Ints} \cup {List(<<v, w>>) : v \in Ints, w \in Ints}
ListEqPrograms == {BinOp("==", l, r) : l \in IntLists, r \in IntLists}
SharedListPrograms == {Let1(<<"l">>, <<l>>, BinOp("==", Id("l"), Id("l"))) : l \in IntLists}

\* Comparisons that meet a lambda: f == f, two lambdas written apart, and
\* sets and lists that hold the lambda f
Identity == Lambda("x", Id("x"))
LambdaEqPrograms ==
    {Let1(<<"f">>, <<Identity>>, BinOp("==", l, r)) :
        l \in {Id("f"), Paren(Identity), Set1(<<"a">>, <<Id("f")>>), List(<<Id("f")>>)},
        r \in {Id("f"), Paren(Identity), Set1(<<"a">>, <<Id("f")>>), List(<<Id("f")>>)}}
        \cup {Let1(<<"f", "s">>, <<Identity, e>>, BinOp("==", Id("s"), Id("s"))) :
                  e \in {Set1(<<"a">>, <<Id("f")>>), List(<<Id("f")>>)}}

\* ({ a ? d, ... } @ s: a) arg, with and without the default, the ellipsis
\* and the name after `@`, on the sets that bind a, b, both or neither to 1
Arguments == {Set1(<<>>, <<>>), Set1(<<"a">>, <<Lit(1)>>), Set1(<<"b">>, <<Lit(1)>>),
              Set1(<<"a", "b">>, <<Lit(1), Lit(1)>>)}
PatternPrograms ==
    {Apply(Paren(LambdaPat(<<"a">>, <<d>>, ellipsis, bind, Id("a"))), arg) :
        d \in {NoDefault, Lit(2)}, ellipsis \in BOOLEAN, bind \in {"", "s"},
        arg \in Arguments}

\* `throw "s"`
ThrowOf(s) == Apply(Id("throw"), Str(s))
\* let x = e; in builtins.tryEval x, for an e that evaluates and an e that
\* raises, and builtins.tryEval (throw "nope")
Raising == {Fail, Id("y"), ThrowOf("nope")}
Guarded == {Lit(1), Set1(<<"a">>, <<Lit(1)>>)} \cup Raising
TryEvalPrograms ==
    {Let1(<<"x">>, <<e>>, TryEvalOf(Id("x"))) : e \in Guarded}
        \cup {TryEvalOf(Paren(ThrowOf("nope")))}

\* A let inside an item of a list, inside the body of a lambda and inside
\* the body of a with:
\*   [ (let y = 1; in y) y ]
\*   (x: [ (let x = 2; in x) x ]) 1
\*   let s = { a = 1; }; in with s; let b = 2; in s
\*   let s = { a = 1; }; in with s; let a = 2; in s
LetPrograms ==
    { List(<<Paren(Let1(<<"y">>, <<Lit(1)>>, Id("y"))), Id("y")>>),
      Apply(Paren(Lambda("x", List(<<Paren(Let1(<<"x">>, <<Lit(2)>>, Id("x"))),
                                     Id("x")>>))),
            Lit(1)) }
    \cup { Let1(<<"s">>, <<Set1(<<"a">>, <<Lit(1)>>)>>,
                With(Id("s"), Let1(<<n>>, <<Lit(2)>>, Id("s")))) : n \in {"a", "b"} }

\* `with { x = 2; }; x` where x is bound by a let, a lambda, a rec set, or not
\* bound lexically:
\*   let n = 1; in with { x = 2; }; x            (n is x or y)
\*   (n: with { x = 2; }; x) 1
\*   rec { n = 1; r = with { x = 2; }; x; }.r
WithBody == With(Set1(<<"x">>, <<Lit(2)>>), Id("x"))
WithPrograms ==
    UNION {{ Let1(<<n>>, <<Lit(1)>>, WithBody),
             Apply(Paren(Lambda(n, WithBody)), Lit(1)),
             Select(RecAttrSet(<<Bind(<<n>>), Bind(<<"r">>)>>, <<Lit(1), WithBody>>),
                    <<"r">>) } : n \in {"x", "y"}}

\* `inherit x;` in a set, a rec set and a let, below a let that binds x:
\*   let x = 1; in { inherit x; }.x
\*   let x = 1; in rec { inherit x; }.x
\*   let x = 1; in let inherit x; in x
InheritPrograms ==
    { Let1(<<"x">>, <<Lit(1)>>, Select(AttrSet(<<Inherit("x")>>, <<Id("x")>>), <<"x">>)),
      Let1(<<"x">>, <<Lit(1)>>, Select(RecAttrSet(<<Inherit("x")>>, <<Id("x")>>), <<"x">>)),
      Let1(<<"x">>, <<Lit(1)>>, LetIn(<<Inherit("x")>>, <<Id("x")>>, Id("x"))) }

\* The walk of a path of names through the expression of a set: the
\* expression reached, or that a name is missing, or that the walk raises an
\* error, or that it meets a value that is not a set before the last name
RECURSIVE Walk(_, _)
Walk(e, path) ==
    IF e.k \in {"Assert", "Paren"} THEN [r |-> "error"]
    ELSE IF e.k # "AttrSet" THEN [r |-> "nonset"]
    ELSE LET hits == {i \in 1..Len(e.ents) : e.ents[i].path = <<Head(path)>>}
         IN  IF hits = {} THEN [r |-> "missing"]
             ELSE LET c == e.ch[CHOOSE i \in hits : TRUE]
                  IN  IF Len(path) = 1 THEN [r |-> "found", e |-> c]
                      ELSE Walk(c, Tail(path))

\* `e.a or 2`, `e.b or 2`, `e.a.b or 2`, `e.a.b.c or 2` for sets e whose walk
\* meets sets only, and for an e that raises an error
OrTargets ==
    { Set1(<<>>, <<>>), Set1(<<"b">>, <<Lit(1)>>), Set1(<<"a">>, <<Fail>>), Paren(Fail) }
        \cup { NestedSet(e) : e \in { Set1(<<>>, <<>>), Set1(<<"b">>, <<Lit(1)>>),
                                       Set1(<<"b">>, <<Fail>>),
                                       Set1(<<"b">>, <<Set1(<<"c">>, <<Lit(1)>>)>>) } }
OrPaths == {<<"a">>, <<"b">>, <<"a", "b">>, <<"a", "b", "c">>}
SelectOrPrograms ==
    {SelectOr(e, path, Lit(2)) : e \in OrTargets, path \in OrPaths}
        \ {SelectOr(e, path, Lit(2)) :
               e \in {t \in OrTargets : \E path \in OrPaths : Walk(t, path).r = "nonset"},
               path \in {<<"a", "b", "c">>}}

\* `e ? a`, `e ? b`, `e ? a.b` for sets e
HasAttrTargets ==
    { Set1(<<>>, <<>>), Set1(<<"b">>, <<Lit(1)>>) }
        \cup { NestedSet(e) : e \in { Lit(1), Set1(<<>>, <<>>), Set1(<<"b">>, <<Lit(1)>>) } }
HasAttrPrograms ==
    {HasAttr(e, path) : e \in HasAttrTargets, path \in {<<"a">>, <<"b">>, <<"a", "b">>}}

\* Sets with an assignment whose last name is the empty string:
\*   { "" = 1; }   { b = 1; "" = 2; }   { a."" = 1; }   { b = 1; a."" = 2; }
EmptyNamePrograms ==
    { AttrSet(<<Bind(<<"">>)>>, <<Lit(1)>>),
      AttrSet(<<Bind(<<"b">>), Bind(<<"">>)>>, <<Lit(1), Lit(2)>>),
      AttrSet(<<Bind(<<"a", "">>)>>, <<Lit(1)>>),
      AttrSet(<<Bind(<<"b">>), Bind(<<"a", "">>)>>, <<Lit(1), Lit(2)>>) }

\* The decimal text of a number below 1000, and the text of a version
Decimal(n) ==
    (IF n >= 100 THEN <<Digits[(n \div 100) + 1]>> ELSE <<>>)
        \o (IF n >= 10 THEN <<Digits[((n \div 10) % 10) + 1]>> ELSE <<>>)
        \o <<Digits[(n % 10) + 1]>>
RECURSIVE VersionText(_)
VersionText(v) ==
    IF Len(v) = 1 THEN Decimal(v[1]) ELSE Decimal(v[1]) \o <<".">> \o VersionText(Tail(v))

\* `builtins.compareVersions "a" "b"` for versions of one and two components
Components == {2, 10}
Versions ==
    {<<c>> : c \in Components \cup {256}}
        \cup {<<c, d>> : c \in Components, d \in Components}
CompareOf(a, b) ==
    Apply(Apply(Select(Id("builtins"), <<"compareVersions">>), Str(VersionText(a))),
          Str(VersionText(b)))
VersionPrograms == {CompareOf(a, b) : a \in Versions, b \in Versions}

\* let p = builtins.compareVersions "a"; in [ (p "b") (p "c") ]
CurryOf(a, b, c) ==
    Let1(<<"p">>,
         <<Apply(Select(Id("builtins"), <<"compareVersions">>), Str(Decimal(a)))>>,
         List(<<Paren(Apply(Id("p"), Str(Decimal(b)))),
                Paren(Apply(Id("p"), Str(Decimal(c))))>>))
CurryPrograms ==
    {CurryOf(a, b, c) : a \in Components, b \in Components, c \in Components}

\* An operand of the wrong type: a condition, an operand of `&&`, `||`, `->`
\* or `//`, a function position that hold an Int, and a set that lacks the
\* argument a pattern requires
WrongTypePrograms ==
    {AssertE(Lit(1), Lit(2)), Apply(Lit(1), Lit(2)),
     Apply(Paren(LambdaPat(<<"a">>, <<NoDefault>>, FALSE, "", Id("a"))), Set1(<<>>, <<>>))}
        \cup {BinOp(op, Lit(1), True) : op \in {"&&", "||", "->"}}
        \cup {BinOp(op, True, Lit(1)) : op \in {"&&", "->"}}
        \cup {BinOp("||", False, Lit(1)), BinOp("//", Lit(1), Set1(<<>>, <<>>))}

\* (x: x x) (x: x x)
Omega == Paren(Lambda("x", Apply(Id("x"), Id("x"))))
SelfApplication == Apply(Omega, Omega)

\* (x: b) (a) for a body that does not use x, one that uses it twice, and
\* an argument that raises or gives a value
LazyArgPrograms ==
    {Apply(Paren(Lambda("x", b)), Paren(a)) :
        b \in {Lit(1), List(<<Id("x"), Id("x")>>), BinOp("==", Id("x"), Id("x"))},
        a \in {Fail, Lit(2), BinOp("==", Lit(1), Lit(1))}}

\* let s = { a = s; }; in s, and the same with the set in a list, with a
\* set that has no cycle for comparison
Acyclic == Let1(<<"s">>, <<Set1(<<"a">>, <<Set1(<<"b">>, <<Lit(1)>>)>>)>>, Id("s"))
CyclicPrograms ==
    {Let1(<<"s">>, <<Set1(<<"a">>, <<Id("s")>>)>>, Id("s")),
     Let1(<<"s">>, <<List(<<Set1(<<"a">>, <<Id("s")>>)>>)>>, Id("s")),
     Acyclic}

\* let s = e; in [ (read of s) (s ? a) ] for a set e without `a` and the
\* reads s ? a.b, s.a.b or 1, s ? a and s.a or 1
Reads ==
    {HasAttr(Id("s"), <<"a", "b">>), SelectOr(Id("s"), <<"a", "b">>, Lit(1)),
     HasAttr(Id("s"), <<"a">>), SelectOr(Id("s"), <<"a">>, Lit(1))}
ReadPrograms ==
    {Let1(<<"s">>, <<e>>, List(<<Paren(r), Paren(HasAttr(Id("s"), <<"a">>))>>)) :
        e \in {Set1(<<>>, <<>>), Set1(<<"b">>, <<Lit(1)>>)}, r \in Reads}

Inputs == Programs \cup ShortCircuitPrograms \cup SelectPrograms \cup ImportPrograms \cup CircularPrograms \cup EqPrograms \cup ListEqPrograms \cup SharedListPrograms \cup LambdaEqPrograms \cup PatternPrograms \cup TryEvalPrograms \cup LetPrograms \cup WithPrograms \cup InheritPrograms \cup SelectOrPrograms \cup HasAttrPrograms \cup EmptyNamePrograms \cup VersionPrograms \cup CurryPrograms \cup WrongTypePrograms \cup {SelfApplication} \cup LazyArgPrograms \cup CyclicPrograms \cup ReadPrograms

-----------------------------------------------------------------------------
(* AttrsetBuilder (value/attrset/builder.rs) *)

\* AttrsetBuilderValue: a thunk, or the builder of a nested set
VarEntry(v) == [var |-> TRUE, v |-> v]
SetEntry(b) == [var |-> FALSE, b |-> b]
\* Option<Rc<NixAttrSetDynamic>>
NoSnapshot == [some |-> FALSE]
Snapshot(set) == [some |-> TRUE, set |-> set]
\* AttrsetBuilder::new
AttrsetBuilder_new == [building |-> EmptyMap, cached |-> NoSnapshot]

\* What a call on the builder returned: nothing yet, Ok(()), an Err, a
\* snapshot, or the call has panicked
Returned(r) == [r |-> r]
ReturnedSnapshot(set) == [r |-> "snapshot", set |-> set]

\* AttrsetBuilder::insert_path: the builder after the call and how it ended
RECURSIVE insert_path(_, _, _)
insert_path(b, path, value) ==
    LET attr == Head(path)
        rest == Tail(path)
    IN  IF attr = "" THEN [b |-> b, r |-> "ok"]
        ELSE IF rest # <<>>
        THEN LET val == IF attr \in DOMAIN b.building THEN b.building[attr]
                        ELSE SetEntry(AttrsetBuilder_new)
             IN  IF val.var THEN [b |-> b, r |-> "panic"]
                 ELSE LET sub == insert_path(val.b, rest, value)
                      IN  [b |-> [b EXCEPT !.building = Insert(@, attr, SetEntry(sub.b))],
                           r |-> sub.r]
        ELSE IF attr \in DOMAIN b.building THEN [b |-> b, r |-> "err"]
        ELSE [b |-> [b EXCEPT !.building = Insert(@, attr, VarEntry(value))], r |-> "ok"]

\* AttrsetBuilder::cached: the snapshot kept in the builder, or a new one
\* made of the thunks and of the snapshots of the nested builders, which
\* keep theirs
RECURSIVE cached(_)
cached(b) ==
    IF b.cached.some THEN [b |-> b, set |-> b.cached.set]
    ELSE LET sub == [k \in {n \in DOMAIN b.building : ~b.building[n].var} |->
                        cached(b.building[k].b)]
             out == [k \in DOMAIN b.building |->
                        IF b.building[k].var THEN [t |-> "var", v |-> b.building[k].v]
                        ELSE [t |-> "set", m |-> sub[k].set]]
         IN  [b |-> [building |-> [k \in DOMAIN b.building |->
                                      IF b.building[k].var THEN b.building[k]
                                      ELSE SetEntry(sub[k].b)],
                     cached |-> Snapshot(out)],
              set |-> out]

\* The names, attribute paths and thunks the builder is driven with
BuilderNames == {"a", "b"}
BuilderPaths == {<<"a">>, <<"b">>, <<"a", "b">>, <<"a", "c">>, <<"a", "">>}
BuilderThunks == 1..MaxInt

Usable == snapshot.r # "panic"

\* AttrsetBuilder::insert_var
BuilderInsertVar ==
    /\ Usable
    /\ \E key \in BuilderNames, value \in BuilderThunks :
          builder' = [building |-> Insert(builder.building, key, VarEntry(value)),
                      cached |-> NoSnapshot]
    /\ snapshot' = Returned("ok")
    /\ UNCHANGED <<machine, hash, drv>>

\* AttrsetBuilder::insert: the snapshot of the builder is dropped, then
\* insert_path
BuilderInsert ==
    /\ Usable
    /\ \E path \in BuilderPaths, value \in BuilderThunks :
          LET done == insert_path([builder EXCEPT !.cached = NoSnapshot], path, value)
          IN  /\ builder' = done.b
              /\ snapshot' = Returned(done.r)
    /\ UNCHANGED <<machine, hash, drv>>

\* AttrsetBuilder::insert_entry, `inherit name;`: the snapshot is dropped and
\* the name is bound to a thunk, unless it is bound already
BuilderInsertEntry ==
    /\ Usable
    /\ \E name \in BuilderNames, value \in BuilderThunks :
          IF name \in DOMAIN builder.building
          THEN /\ builder' = [builder EXCEPT !.cached = NoSnapshot]
               /\ snapshot' = Returned("panic")
          ELSE /\ builder' = [building |-> Insert(builder.building, name, VarEntry(value)),
                              cached |-> NoSnapshot]
               /\ snapshot' = Returned("ok")
    /\ UNCHANGED <<machine, hash, drv>>

\* AttrsetBuilder::cached
BuilderCached ==
    /\ Usable
    /\ builder' = cached(builder).b
    /\ snapshot' = ReturnedSnapshot(cached(builder).set)
    /\ UNCHANGED <<machine, hash, drv>>

-----------------------------------------------------------------------------
(* Hash (derivation/hash.rs): the texts of a digest and their decoding *)

\* Arithmetic of machine words: x >> k, x << k in 8 bits, and the bitwise
\* or and exclusive or
Shr(x, k) == x \div (2 ^ k)
Shl(x, k) == x * (2 ^ k)
ShlU8(x, k) == (x * (2 ^ k)) % 256
RECURSIVE BitOr(_, _)
BitOr(a, b) ==
    IF a = 0 THEN b
    ELSE IF b = 0 THEN a
    ELSE (IF a % 2 = 1 \/ b % 2 = 1 THEN 1 ELSE 0) + 2 * BitOr(a \div 2, b \div 2)
RECURSIVE BitXor(_, _)
BitXor(a, b) ==
    IF a = 0 THEN b
    ELSE IF b = 0 THEN a
    ELSE (IF a % 2 # b % 2 THEN 1 ELSE 0) + 2 * BitXor(a \div 2, b \div 2)

\* The digest sizes of the algorithms, in bytes
Algorithms == {"md5", "sha1", "sha256", "sha512"}
HashSize(algorithm) ==
    CASE algorithm = "md5" -> 16
      [] algorithm = "sha1" -> 20
      [] algorithm = "sha256" -> 32
      [] algorithm = "sha512" -> 64

BASE16_CHARS ==
    <<"0", "1", "2", "3", "4", "5", "6", "7", "8", "9", "a", "b", "c", "d", "e", "f">>
NIX32_CHARS ==
    <<"0", "1", "2", "3", "4", "5", "6", "7", "8", "9", "a", "b", "c", "d", "f", "g",
      "h", "i", "j", "k", "l", "m", "n", "p", "q", "r", "s", "v", "w", "x", "y", "z">>
\* chars().position: the place of a character in an alphabet from 0, or -1
Position(chars, c) ==
    IF \E d \in 1..Len(chars) : chars[d] = c
    THEN (CHOOSE d \in 1..Len(chars) : chars[d] = c) - 1
    ELSE -1

\* Hash::base16, Hash::base32: the length of the texts of a digest
base16(hash_size) == hash_size * 2
base32(hash_size) == ((hash_size * 8 - 1) \div 5) + 1

\* Hash::print_base16: two characters a byte, the high half first
print_base16(bytes, hash_size) ==
    [k \in 1..base16(hash_size) |->
        LET hash_c == bytes[((k - 1) \div 2) + 1]
        IN  BASE16_CHARS[(IF k % 2 = 1 THEN Shr(hash_c, 4) ELSE hash_c % 16) + 1]]

\* Hash::print_base32: the character of the five bits from bit 5 n on, for n
\* from the last group down to 0
print_base32(bytes, hash_size) ==
    [k \in 1..base32(hash_size) |->
        LET n == base32(hash_size) - k
            b == n * 5
            i == b \div 8
            j == b % 8
            c == BitOr(Shr(bytes[i + 1], j),
                       IF i >= hash_size - 1 THEN 0 ELSE Shl(bytes[i + 2], 8 - j))
        IN  NIX32_CHARS[(c % 32) + 1]]

\* The digests the texts are made of: all bytes 0 but one
HashBytes == {0, 1, 31, 255}
HashInputs(hash_size) ==
    {[i \in 1..hash_size |-> IF i = at THEN byte ELSE 0] :
        at \in {1, 2, hash_size}, byte \in HashBytes}
Zeros(hash_size) == [i \in 1..hash_size |-> 0]

\* A digest of an algorithm in a build with or without overflow checks
\* (debug and release profile), before anything is done with it
NoHash ==
    [algorithm |-> "md5", checks |-> FALSE, bytes |-> <<>>, pc |-> "none",
     rest |-> <<>>, n |-> 0, hash_out |-> <<>>, shift |-> 0]
HashOf(algorithm, checks, bytes) ==
    [NoHash EXCEPT !.algorithm = algorithm, !.checks = checks, !.bytes = bytes,
                   !.pc = "new_empty", !.hash_out = Zeros(HashSize(algorithm))]

\* print_base16 or print_base32 of the digest
HashPrint ==
    /\ hash.pc = "new_empty"
    /\ \E text \in {print_base16(hash.bytes, HashSize(hash.algorithm)),
                     print_base32(hash.bytes, HashSize(hash.algorithm))} :
          hash' = [hash EXCEPT !.pc = "printed", !.rest = text]
    /\ UNCHANGED <<machine, builder, snapshot, drv>>

\* Hash::new, not SRI: a text of the base-16 length is read two characters
\* a byte; a text of the base-32 length is read from its last character on
\* (the base-64 text of an SRI hash is not among the texts)
HashNew ==
    /\ hash.pc = "printed"
    /\ LET hash_size == HashSize(hash.algorithm)
           digit(k) == Position(BASE16_CHARS, hash.rest[k])
       IN  IF Len(hash.rest) = base16(hash_size)
           THEN hash' = [hash EXCEPT
                    !.pc = "Ok",
                    !.hash_out = [i \in 1..hash_size |->
                                     BitOr(ShlU8(digit(2 * i - 1), 4), digit(2 * i))]]
           ELSE IF Len(hash.rest) = base32(hash_size)
           THEN hash' = [hash EXCEPT !.pc = "base32", !.n = 0]
           ELSE hash' = [hash EXCEPT !.pc = "InvalidHashLength"]
    /\ UNCHANGED <<machine, builder, snapshot, drv>>

\* Hash::new, base 32: one turn of the loop over the reversed text.  The
\* bits of the digit from bit j on go to byte i, those above the byte to
\* byte i + 1 with a shift of an 8 bit value by 8 - j: for j = 0 that is a
\* shift by the width, which panics with overflow checks and shifts by 0
\* without them
HashNewBase32 ==
    /\ hash.pc = "base32"
    /\ hash.n < Len(hash.rest)
    /\ LET hash_size == HashSize(hash.algorithm)
           digit == Position(NIX32_CHARS, hash.rest[Len(hash.rest) - hash.n])
           b == hash.n * 5
           i == b \div 8
           j == b % 8
           low == [hash.hash_out EXCEPT ![i + 1] = BitOr(@, ShlU8(digit, j))]
           the_magik_thingy_liringy == Shr(digit, (8 - j) % 8)
       IN  IF digit < 0
           THEN hash' = [hash EXCEPT !.pc = "InvalidBase32Hash"]
           ELSE IF 8 - j >= 8 /\ hash.checks
           THEN hash' = [hash EXCEPT !.pc = "panic", !.hash_out = low, !.shift = 8 - j]
           ELSE IF i < hash_size - 1
           THEN hash' = [hash EXCEPT
                    !.n = @ + 1, !.shift = 8 - j,
                    !.hash_out = [low EXCEPT
                                     ![i + 2] = BitOr(@, the_magik_thingy_liringy)]]
           ELSE IF the_magik_thingy_liringy # 0
           THEN hash' = [hash EXCEPT !.pc = "InvalidBase32Hash", !.hash_out = low,
                                     !.shift = 8 - j]
           ELSE hash' = [hash EXCEPT !.n = @ + 1, !.hash_out = low, !.shift = 8 - j]
    /\ UNCHANGED <<machine, builder, snapshot, drv>>

\* Hash::new, base 32: the text is read, the Hash is returned
HashNewOk ==
    /\ hash.pc = "base32"
    /\ hash.n = Len(hash.rest)
    /\ hash' = [hash EXCEPT !.pc = "Ok"]
    /\ UNCHANGED <<machine, builder, snapshot, drv>>

-----------------------------------------------------------------------------
(* Derivation::path (derivation/mod.rs) with the SHA-256 of the Hasher *)

\* A 32 bit word is the pair of its high and its low 16 bits
WXor(x, y) == <<BitXor(x[1], y[1]), BitXor(x[2], y[2])>>
RECURSIVE BitAnd(_, _)
BitAnd(a, b) ==
    IF a = 0 \/ b = 0 THEN 0
    ELSE (IF a % 2 = 1 /\ b % 2 = 1 THEN 1 ELSE 0) + 2 * BitAnd(a \div 2, b \div 2)
WAnd(x, y) == <<BitAnd(x[1], y[1]), BitAnd(x[2], y[2])>>
WNot(x) == <<65535 - x[1], 65535 - x[2]>>
\* Addition modulo 2^32
WAdd(x, y) ==
    LET lo == x[2] + y[2]
    IN  <<(x[1] + y[1] + (lo \div 65536)) % 65536, lo % 65536>>
\* Shift and rotation to the right by n bits
WShr(x, n) == <<Shr(x[1], n), Shr(x[2], n) + Shl(x[1] % (2 ^ n), 16 - n)>>
Rotr16(x, n) ==
    IF n = 0 THEN x
    ELSE <<Shr(x[1], n) + Shl(x[2] % (2 ^ n), 16 - n),
           Shr(x[2], n) + Shl(x[1] % (2 ^ n), 16 - n)>>
Rotr(x, n) == IF n >= 16 THEN Rotr16(<<x[2], x[1]>>, n - 16) ELSE Rotr16(x, n)

\* The functions and the constants of SHA-256 (FIPS 180-4, 4.1.2 and 4.2.2)
Ch(x, y, z) == WXor(WAnd(x, y), WAnd(WNot(x), z))
Maj(x, y, z) == WXor(WXor(WAnd(x, y), WAnd(x, z)), WAnd(y, z))
BigSigma0(x) == WXor(WXor(Rotr(x, 2), Rotr(x, 13)), Rotr(x, 22))
BigSigma1(x) == WXor(WXor(Rotr(x, 6), Rotr(x, 11)), Rotr(x, 25))
SmallSigma0(x) == WXor(WXor(Rotr(x, 7), Rotr(x, 18)), WShr(x, 3))
SmallSigma1(x) == WXor(WXor(Rotr(x, 17), Rotr(x, 19)), WShr(x, 10))
Sha256K ==
    <<
      <<17034, 12184>>, <<28983, 17553>>, <<46528, 64463>>, <<59829, 56229>>,
      <<14678, 49755>>, <<23025, 4593>>, <<37439, 33444>>, <<43804, 24277>>,
      <<55303, 43672>>, <<4739, 23297>>, <<9265, 34238>>, <<21772, 32195>>,
      <<29374, 23924>>, <<32990, 45566>>, <<39900, 1703>>, <<49563, 61812>>,
      <<58523, 27073>>, <<61374, 18310>>, <<4033, 40390>>, <<9228, 41420>>,
      <<11753, 11375>>, <<19060, 33962>>, <<23728, 43484>>, <<30457, 35034>>,
      <<38974, 20818>>, <<43057, 50797>>, <<45059, 10184>>, <<48985, 32711>>,
      <<50912, 3059>>, <<54695, 37191>>, <<1738, 25425>>, <<5161, 10599>>,
      <<10167, 2693>>, <<11803, 8504>>, <<19756, 28156>>, <<21304, 3347>>,
      <<25866, 29524>>, <<30314, 2747>>, <<33218, 51502>>, <<37490, 11397>>,
      <<41663, 59553>>, <<43034, 26187>>, <<49739, 35696>>, <<51052, 20899>>,
      <<53650, 59417>>, <<54937, 1572>>, <<62478, 13701>>, <<4202, 41072>>,
      <<6564, 49430>>, <<7735, 27656>>, <<10056, 30540>>, <<13488, 48309>>,
      <<14620, 3251>>, <<20184, 43594>>, <<23452, 51791>>, <<26670, 28659>>,
      <<29839, 33518>>, <<30885, 25455>>, <<33992, 30740>>, <<36039, 520>>,
      <<37054, 65530>>, <<42064, 27883>>, <<48889, 41975>>, <<50801, 30962>> >>
Sha256H0 ==
    <<
      <<27145, 58983>>, <<47975, 44677>>, <<15470, 62322>>, <<42319, 62778>>,
      <<20750, 21119>>, <<39685, 26764>>, <<8067, 55723>>, <<23520, 52505>> >>

\* The message with its padding: the bit 1, zeros up to 56 modulo 64 bytes,
\* and the length of the message in bits as 8 bytes
Sha256Pad(data) ==
    LET zeros == (119 - (Len(data) % 64)) % 64
        bits == Len(data) * 8
    IN  data \o <<128>> \o [i \in 1..zeros |-> 0]
             \o <<0, 0, 0, 0, 0, 0, bits \div 256, bits % 256>>

\* The 64 words of the schedule of a block of 64 bytes
RECURSIVE Sha256Extend(_)
Sha256Extend(w) ==
    IF Len(w) = 64 THEN w
    ELSE LET t == Len(w) + 1
         IN  Sha256Extend(Append(w, WAdd(WAdd(SmallSigma1(w[t - 2]), w[t - 7]),
                                         WAdd(SmallSigma0(w[t - 15]), w[t - 16]))))
Sha256Schedule(block) ==
    Sha256Extend([t \in 1..16 |->
                     <<block[4 * t - 3] * 256 + block[4 * t - 2],
                       block[4 * t - 1] * 256 + block[4 * t]>>])

\* One round on the working variables a to h
Sha256Step(regs, k, w) ==
    LET T1 == WAdd(WAdd(WAdd(regs[8], BigSigma1(regs[5])),
                        WAdd(Ch(regs[5], regs[6], regs[7]), k)), w)
        T2 == WAdd(BigSigma0(regs[1]), Maj(regs[1], regs[2], regs[3]))
    IN  <<WAdd(T1, T2), regs[1], regs[2], regs[3],
          WAdd(regs[4], T1), regs[5], regs[6], regs[7]>>

\* The digest: the bytes of the eight words, the high byte first
Sha256Digest(h) ==
    [i \in 1..32 |->
        LET half == h[((i - 1) \div 4) + 1][(((i - 1) % 4) \div 2) + 1]
        IN  IF i % 2 = 1 THEN half \div 256 ELSE half % 256]

\* The bytes of a text (the characters of the fingerprints are ASCII)
Lower ==
    <<"a", "b", "c", "d", "e", "f", "g", "h", "i", "j", "k", "l", "m",
      "n", "o", "p", "q", "r", "s", "t", "u", "v", "w", "x", "y", "z">>
AsciiOf(c) ==
    IF IsDigit(c) THEN 48 + DigitOf(c)
    ELSE IF c = "-" THEN 45
    ELSE IF c = "/" THEN 47
    ELSE IF c = ":" THEN 58
    ELSE 97 + Position(Lower, c)
as_bytes(text) == [i \in 1..Len(text) |-> AsciiOf(text[i])]

\* The hash of the reference derivation and its output path
\* (derivation/parser.rs, the test of the parser)
ReferenceHash ==
    <<"8", "a", "b", "e", "2", "1", "1", "b", "6", "5", "4", "8", "3", "e", "f", "d",
      "e", "c", "7", "b", "b", "2", "5", "f", "5", "a", "a", "0", "8", "c", "f", "e",
      "c", "8", "8", "b", "a", "8", "5", "1", "0", "5", "9", "2", "6", "8", "4", "c",
      "5", "b", "f", "2", "0", "6", "0", "a", "8", "7", "3", "2", "e", "8", "f", "7">>
ReferencePath ==
    <<"/", "n", "i", "x", "/", "s", "t", "o", "r", "e", "/",
      "n", "y", "r", "n", "k", "0", "8", "p", "h", "h", "l",
      "w", "s", "p", "s", "9", "4", "i", "r", "y", "a", "0",
      "5", "y", "6", "h", "z", "8", "r", "3", "j", "h", "-",
      "s", "o", "u", "r", "c", "e">>

\* The bytes of a text of base 16
FromBase16(text) ==
    [i \in 1..(Len(text) \div 2) |->
        BitOr(ShlU8(Position(BASE16_CHARS, text[2 * i - 1]), 4),
              Position(BASE16_CHARS, text[2 * i]))]

\* The name of the path of the output `name` of a derivation
path_name(drv_name, name) ==
    IF name = <<"o", "u", "t">> THEN drv_name ELSE drv_name \o <<"-">> \o name

\* "source:{algorithm}:{base 16 of the hash}:/nix/store:{path_name}"
Fingerprint(algorithm, bytes, pathName) ==
    <<"s", "o", "u", "r", "c", "e", ":">> \o algorithm \o <<":">>
        \o print_base16(bytes, Len(bytes)) \o <<":", "/", "n", "i", "x", "/", "s", "t", "o", "r", "e", ":">> \o pathName

\* hash_part.hash[i % 20] ^= hashed[i] for the i below hash_size
RECURSIVE Compress(_, _, _)
CompressTruncated(hashed, hash_size, i) == SubSeq(hashed, 1, 20)
Compress(hashed, hash_size, i) ==
    IF i = 0 THEN Zeros(20)
    ELSE [Compress(hashed, hash_size, i - 1) EXCEPT
             ![((i - 1) % 20) + 1] = BitXor(@, hashed[i])]

\* The derivations: their name, the output asked for, and the outputs, each
\* with its kind, method and hash
AlgorithmText(algorithm) ==
    CASE algorithm = "sha256" -> <<"s", "h", "a", "2", "5", "6">>
      [] algorithm = "sha1" -> <<"s", "h", "a", "1">>
      [] algorithm = "md5" -> <<"m", "d", "5">>
      [] algorithm = "sha512" -> <<"s", "h", "a", "5", "1", "2">>
CAFixed(method, algorithm, bytes) ==
    [kind |-> "CAFixed", method |-> method, algorithm |-> algorithm, bytes |-> bytes]
Reference == CAFixed("NixArchive", "sha256", FromBase16(ReferenceHash))
DerivationNames == {<<"s", "o", "u", "r", "c", "e">>, <<"x">>}
OutputNames == {<<"o", "u", "t">>, <<"d", "e", "v">>}
Outputs ==
    {Reference, CAFixed("NixArchive", "sha256", Zeros(32)),
     CAFixed("Git", "sha256", Zeros(32)), CAFixed("Flat", "sha256", Zeros(32)),
     CAFixed("NixArchive", "sha1", Zeros(20)), [kind |-> "Deferred"],
     [kind |-> "InputAddressed"]}
NoDerivation ==
    [name |-> <<>>, outputs |-> EmptyMap, k |-> <<>>, pc |-> "none", data |-> <<>>,
     h |-> <<>>, block |-> 0, w |-> <<>>, regs |-> <<>>, t |-> 0, path |-> <<>>]
DerivationOf(name, outputs, k) ==
    [NoDerivation EXCEPT !.name = name, !.outputs = outputs, !.k = k, !.pc = "path"]

\* Derivation::path: None without the output and for a Git output that is
\* not SHA-1; todo! for every output but a fixed NAR one with SHA-256; for
\* that one the fingerprint is given to a new Hasher
DerivationPath ==
    /\ drv.pc = "path"
    /\ IF drv.k \notin DOMAIN drv.outputs
       THEN drv' = [drv EXCEPT !.pc = "None"]
       ELSE LET output == drv.outputs[drv.k]
            IN  IF output.kind # "CAFixed"
                THEN drv' = [drv EXCEPT !.pc = "panic"]
                ELSE IF output.method = "Git" /\ output.algorithm # "sha1"
                THEN drv' = [drv EXCEPT !.pc = "None"]
                ELSE IF output.method = "NixArchive" /\ output.algorithm = "sha256"
                THEN drv' = [drv EXCEPT
                         !.pc = "finish_with",
                         !.data = Sha256Pad(as_bytes(
                                      Fingerprint(AlgorithmText(output.algorithm),
                                                  output.bytes,
                                                  path_name(drv.name, drv.k)))),
                         !.h = Sha256H0, !.block = 0, !.t = 64]
                ELSE drv' = [drv EXCEPT !.pc = "panic"]
    /\ UNCHANGED <<machine, builder, snapshot, hash>>

\* Hasher::finish_with: the next block of the padded data is scheduled
Sha256Block ==
    /\ drv.pc = "finish_with"
    /\ drv.t = 64 /\ drv.regs = <<>>
    /\ drv.block * 64 < Len(drv.data)
    /\ drv' = [drv EXCEPT
                  !.w = Sha256Schedule(SubSeq(drv.data, drv.block * 64 + 1,
                                              drv.block * 64 + 64)),
                  !.regs = drv.h, !.t = 0]
    /\ UNCHANGED <<machine, builder, snapshot, hash>>

\* Hasher::finish_with: one round of the compression of the block
Sha256Round ==
    /\ drv.pc = "finish_with"
    /\ drv.t < 64
    /\ drv' = [drv EXCEPT
                  !.regs = Sha256Step(drv.regs, Sha256K[drv.t + 1], drv.w[drv.t + 1]),
                  !.t = @ + 1]
    /\ UNCHANGED <<machine, builder, snapshot, hash>>

\* Hasher::finish_with: the block is added to the hash value
Sha256BlockDone ==
    /\ drv.pc = "finish_with"
    /\ drv.t = 64 /\ drv.regs # <<>>
    /\ drv' = [drv EXCEPT
                  !.h = [i \in 1..8 |-> WAdd(drv.h[i], drv.regs[i])],
                  !.regs = <<>>, !.w = <<>>, !.block = @ + 1]
    /\ UNCHANGED <<machine, builder, snapshot, hash>>

\* Derivation::path: the digest is folded into 20 bytes, printed in base 32
\* and put between the store and the name of the path
DerivationPathSome ==
    /\ drv.pc = "finish_with"
    /\ drv.t = 64 /\ drv.regs = <<>>
    /\ drv.block * 64 = Len(drv.data)
    /\ LET hashed == Sha256Digest(drv.h)
           hash_size == Len(drv.outputs[drv.k].bytes)
           hash_part == print_base32(Compress(hashed, hash_size, hash_size), 20)
       IN  drv' = [drv EXCEPT
                      !.pc = "Some",
                      !.path = <<"/", "n", "i", "x", "/", "s", "t", "o", "r", "e", "/">> \o hash_part \o <<"-">>
                                   \o path_name(drv.name, drv.k)]
    /\ UNCHANGED <<machine, builder, snapshot, hash>>

-----------------------------------------------------------------------------
(* The specification *)

Init ==
    /\ prog \in Inputs
    /\ thunks = <<>>
    /\ values = <<>>
    /\ scopes = <<>>
    /\ FILE_CACHE = EmptyMap
    /\ stack = <<Frame("main", "start")>>
    /\ ret = Ok(0)
    /\ status = "running"
    /\ evals = EmptyMap
    /\ forced = EmptyMap
    /\ reads = EmptyMap
    /\ visits = EmptyMap
    /\ history = EmptyMap
    /\ builder = AttrsetBuilder_new
    /\ snapshot = Returned("none")
    /\ hash = NoHash
    /\ drv = NoDerivation

Next ==
    \/ MainStart \/ MainGotFile \/ MainResolved
    \/ GetFile \/ GetFileResolved
    \/ Propagate
    \/ NixVarResolve \/ NixVarResolveLoop
    \/ ResolveConcrete \/ ResolveResolving
    \/ ResolvePending \/ ResolvePendingVisited \/ ResolvePendingReturned
    \/ ResolvePendingResolved
    \/ ResolveEval \/ ResolveEvalDone \/ InheritEval
    \/ ResolveUpdate \/ ResolveUpdateVisited \/ ResolveUpdateResolved
    \/ VisitLiteral \/ VisitPath \/ VisitStr \/ VisitIdent \/ VisitParen \/ VisitLambda
    \/ VisitList
    \/ VisitAttrSet \/ VisitAttrSetEntries \/ VisitLetIn \/ VisitLetInEntries
    \/ InsertEntry \/ InsertToAttrsetTarget
    \/ ResolveAttrSetPath \/ ResolveAttrSetPathResolved
    \/ VisitSelect \/ SelectVisited \/ SelectForced \/ SelectSetResolved
    \/ VisitAssert \/ AssertVisited \/ AssertResolved
    \/ VisitHasAttr \/ HasAttrVisited \/ HasAttrForced \/ HasAttrSetResolved
    \/ VisitWith \/ WithVisited \/ WithResolved
    \/ VisitApply \/ ApplyVisited \/ ApplyResolved
    \/ CallLambda \/ CallLambdaReturned \/ StackOverflow \/ CallPattern \/ CallPatternResolved \/ CallBuiltinPartial \/ CallBuiltin \/ CallBuiltinRan
    \/ Import \/ ImportPath \/ TryEval \/ TryEvalResolved \/ Throw \/ ThrowMessage
    \/ CompareVersions \/ CompareVersionsFirst \/ CompareVersionsSecond
    \/ VisitBinOp \/ BinOpLhsVisited
    \/ BinOpAnd \/ BinOpOr \/ BinOpImplication \/ BinOpUpdate
    \/ BinOpEqual \/ BinOpRhsVisited \/ BinOpRhsResolved \/ BinOpCompared
    \/ ValueTryEq \/ ValueTryEqZip
    \/ LazyTryEq \/ LazyTryEqLhs \/ LazyTryEqRhs
    \/ ResolveSet \/ ResolveSetSelf \/ ResolveSetValues \/ ResolveSetRecursive

Spec == Init /\ [][Next]_vars

\* The interpreter is one sequential process: it takes its next step as long
\* as it has one
FairSpec == Spec /\ WF_vars(Next)

\* The evaluator is not running
Stopped ==
    /\ prog = Lit(1)
    /\ thunks = <<>> /\ values = <<>> /\ scopes = <<>>
    /\ FILE_CACHE = EmptyMap
    /\ stack = <<>>
    /\ ret = Ok(0)
    /\ status = "done"
    /\ evals = EmptyMap /\ forced = EmptyMap /\ reads = EmptyMap
    /\ visits = EmptyMap /\ history = EmptyMap

\* A new AttrsetBuilder under every sequence of calls of its methods
BuilderInit ==
    /\ Stopped
    /\ builder = AttrsetBuilder_new
    /\ snapshot = Returned("none")
    /\ hash = NoHash
    /\ drv = NoDerivation
BuilderNext == BuilderInsertVar \/ BuilderInsert \/ BuilderInsertEntry \/ BuilderCached
BuilderSpec == BuilderInit /\ [][BuilderNext]_vars

\* A digest of every algorithm printed and read back
HashInit ==
    /\ Stopped
    /\ builder = AttrsetBuilder_new
    /\ snapshot = Returned("none")
    /\ hash \in UNION {{HashOf(algorithm, checks, bytes) :
                            checks \in BOOLEAN, bytes \in HashInputs(HashSize(algorithm))} :
                        algorithm \in Algorithms}
    /\ drv = NoDerivation
HashNext == HashPrint \/ HashNew \/ HashNewBase32 \/ HashNewOk
HashSpec == HashInit /\ [][HashNext]_vars

\* A derivation with one output, asked for the path of an output
DerivationInit ==
    /\ Stopped
    /\ builder = AttrsetBuilder_new
    /\ snapshot = Returned("none")
    /\ hash = NoHash
    /\ drv \in {DerivationOf(name, (o :> output), k) :
                    name \in DerivationNames, o \in OutputNames,
                    output \in Outputs, k \in OutputNames}
DerivationNext ==
    \/ DerivationPath \/ Sha256Block \/ Sha256Round \/ Sha256BlockDone
    \/ DerivationPathSome
DerivationSpec == DerivationInit /\ [][DerivationNext]_vars

-----------------------------------------------------------------------------
(* Reading the outcome of a run *)

\* What a value cell holds, its thunks followed: a tagged tree
RECURSIVE Denote(_)
Denote(v) ==
    LET x == values[v]
    IN  IF x.t = "attrs"
        THEN [t |-> "attrs",
              m |-> [k \in DOMAIN x.m |->
                        IF thunks[x.m[k]].st = "Concrete"
                        THEN Denote(thunks[x.m[k]].val)
                        ELSE [t |-> "thunk", st |-> thunks[x.m[k]].st]]]
        ELSE IF x.t = "list"
        THEN [t |-> "list",
              items |-> [i \in DOMAIN x.items |->
                            IF thunks[x.items[i]].st = "Concrete"
                            THEN Denote(thunks[x.items[i]].val)
                            ELSE [t |-> "thunk", st |-> thunks[x.items[i]].st]]]
        ELSE IF x.t = "lambda" THEN [t |-> "lambda"] ELSE x

\* The result main prints, or the error it exits with
Outcome ==
    CASE status = "done" -> [status |-> "done", value |-> Denote(ret.v)]
      [] status = "error" -> [status |-> "error", err |-> ret.err]
      [] OTHER -> [status |-> status]

-----------------------------------------------------------------------------
(* The claims *)

\* The thunks that were created Pending or Eval
Lazy == {t \in 1..Len(thunks) : Hist(t)[1].st \in {"Pending", "Eval"}}

\* C1: a thunk created Pending or Eval has its body evaluated at most once,
\* all its successful forces return the same value cell, and a force that
\* follows a successful one visits no expression
C1_Memoization ==
    /\ \A t \in Lazy : Count(evals, t) <= 1
    /\ \A t \in Lazy : Cardinality(Seen(forced, t)) <= 1
    /\ \A i \in 1..Len(stack) :
          stack[i].again /\ stack[i].t \in Lazy =>
             \A j \in (i + 1)..Len(stack) : stack[j].fn # "visit_expr"

\* C2: a force of a thunk that is Resolving returns the infinite-recursion
\* error labelled with the defining span, the caller's span and the span of
\* the first use, and evaluates nothing; the self reference and the mutual
\* reference both end with that error
C2_RecursionDetected ==
    /\ [](prog \in {SelfReference, MutualReference} /\ status # "running" =>
             status = "error" /\ ret.err.kind = "InfiniteRecursion")
    /\ [][At("resolve", "start") /\ thunks[Top.t].st = "Resolving" =>
             /\ ret' = Err(Error("InfiniteRecursion",
                                 <<thunks[Top.t].def, Top.bt, thunks[Top.t].use>>))
             /\ stack' = Rest
             /\ thunks' = thunks
             /\ evals' = evals
             /\ visits' = visits]_vars

\* the self reference has ended with the error of the force of x under way
C2_Witness ==
    /\ prog = SelfReference
    /\ status = "error"
    /\ ret.err.kind = "InfiniteRecursion"
    /\ Len(ret.err.labels) = 3

\* The thunks some force of which is under way: LazyNixValue::resolve has
\* put them to Resolving and has not returned
InProgress == {stack[i].t : i \in {j \in 1..Len(stack) :
                                     stack[j].fn = "resolve" /\ stack[j].pc # "start"}}

\* C3: while the program runs and no error is on its way up, a thunk is
\* Resolving only if a force of it is under way
C3_ResolvingOnlyInProgress ==
    status = "running" /\ ret.ok =>
        \A t \in 1..Len(thunks) : thunks[t].st = "Resolving" => t \in InProgress

\* The inputs `false && r`, `true || r` and `false -> r`
Skipping ==
    {e \in ShortCircuitPrograms :
        \/ e.ch[2].op \in {"&&", "->"} /\ e.ch[2].ch[1] = False
        \/ e.ch[2].op = "||" /\ e.ch[2].ch[1] = True}

\* C4: `false && r` is false, `true || r` and `false -> r` are true, and r is
\* never visited nor the variable it names evaluated, whatever r is
C4_ShortCircuit ==
    prog \in Skipping =>
        /\ Count(visits, Span(MainPath, <<2, 2>>)) = 0
        /\ Count(visits, Span(MainPath, <<1>>)) = 0
        /\ status # "running" =>
              /\ status = "done"
              /\ Denote(ret.v) = VBool(prog.ch[2].op # "&&")

\* `false && (assert false; 1)` has ended with false
C4_Witness ==
    /\ prog = Let1(<<"x">>, <<Fail>>, BinOp("&&", False, Fail))
    /\ status = "done"
    /\ Denote(ret.v) = VBool(FALSE)

\* Whether an expression is made of `//`, parentheses and sets `{ n = e; }`
RECURSIVE IsUpdateOfSets(_)
IsUpdateOfSets(sp) ==
    LET e == Node(sp)
    IN  CASE e.k = "AttrSet" ->
                 ~e.rec /\ \A i \in 1..Len(e.ents) :
                               ~e.ents[i].inherit /\ Len(e.ents[i].path) = 1
          [] e.k = "Paren" -> IsUpdateOfSets(Child(sp, 1))
          [] e.k = "BinOp" ->
                 e.op = "//" /\ IsUpdateOfSets(Child(sp, 1)) /\ IsUpdateOfSets(Child(sp, 2))
          [] OTHER -> FALSE

\* The entries such an expression denotes, each name with the span of the
\* expression it is bound to: the right operand of `//` wins
RECURSIVE Entries(_)
Entries(sp) ==
    LET e == Node(sp)
    IN  CASE e.k = "AttrSet" ->
                 [n \in {e.ents[i].path[1] : i \in 1..Len(e.ents)} |->
                     Child(sp, CHOOSE i \in 1..Len(e.ents) : e.ents[i].path[1] = n)]
          [] e.k = "Paren" -> Entries(Child(sp, 1))
          [] OTHER -> LET l == Entries(Child(sp, 1))
                          r == Entries(Child(sp, 2))
                      IN  [n \in DOMAIN l \cup DOMAIN r |->
                              IF n \in DOMAIN r THEN r[n] ELSE l[n]]

\* The span of the `//` a thunk was made for, <<>> if it was made for none
UpdateOf(t) ==
    LET h == Hist(t)
        is == {i \in 1..Len(h) : h[i].st = "UpdateResolve"}
    IN  IF is = {} THEN <<>>
        ELSE LET rhs == h[CHOOSE i \in is : \A j \in is : i <= j].rhs
             IN  <<Span(rhs.f, Front(rhs.p))>>

\* C5: every value a force of the thunk of `l // r` has returned, by whichever
\* entry point, has the names of l and of r, each bound to the thunk of r's
\* expression when r has the name and of l's otherwise
C5_UpdateMerges ==
    \A t \in DOMAIN forced :
        \A sp \in {UpdateOf(t)[i] : i \in 1..Len(UpdateOf(t))} :
            IsUpdateOfSets(sp) =>
                \A v \in forced[t] :
                    /\ values[v].t = "attrs"
                    /\ [n \in DOMAIN values[v].m |-> Hist(values[v].m[n])[1].node]
                          = Entries(sp)

\* C6: a thunk created as UpdateResolve{lhs, rhs} that is Concrete does not
\* hold the value cell of lhs, which lacks the entries of rhs
C6_ConcreteIsMerged ==
    \A t \in 1..Len(thunks) :
        Hist(t)[1].st = "UpdateResolve" /\ thunks[t].st = "Concrete" =>
            thunks[t].val # Hist(t)[1].lhs

\* The spans of the expressions bound in the sets l and r of (l // r).n
Bound ==
    UNION {{Child(Span(MainPath, <<1, 1, s>>), i) :
               i \in 1..Len(prog.ch[1].ch[1].ch[s].ents)} : s \in 1..2}

\* C7: reading one attribute of `l // r` visits the expression of no other
\* attribute of l or r, during the read and to the end of the run; what the
\* run gives is the attribute read, r's if r has it
C7_SelectForcesOne ==
    prog \in SelectPrograms =>
        LET n == prog.attrs[1]
            m == Entries(Span(MainPath, <<1, 1>>))
        IN  /\ \A sp \in Bound : (n \in DOMAIN m /\ m[n] = sp) \/ Count(visits, sp) = 0
            /\ status = "done" => n \in DOMAIN m /\ Denote(ret.v) = VInt(Node(m[n]).n)
            /\ status = "error" =>
                  IF n \in DOMAIN m
                  THEN Node(m[n]) = Fail /\ ret.err.kind = "AssertFailed"
                  ELSE ret.err.kind = "AttributeMissing"
            /\ status # "panic"

\* `({ a = 1; } // { a = 2; b = assert false; 1; }).a` has given 2
C7_Witness ==
    /\ prog = Select(Paren(BinOp("//", Set1(<<"a">>, <<Lit(1)>>),
                                       Set1(<<"a", "b">>, <<Lit(2), Fail>>))), <<"a">>)
    /\ status = "done"
    /\ Denote(ret.v) = VInt(2)
    /\ Count(visits, Span(MainPath, <<1, 1, 2, 2>>)) = 0

\* The thunks made for the root expression of the file at a path
RootThunks(path) ==
    {t \in 1..Len(thunks) :
        Hist(t)[1].st = "Pending" /\ Hist(t)[1].node = Span(path, <<>>)}

\* C8: whatever was imported so far, each file was read and parsed at most
\* once, has at most one top-level thunk, and that thunk was evaluated at
\* most once
C8_FileLoadedOnce ==
    \A path \in DOMAIN Files \cup {MainPath} :
        /\ Count(reads, path) <= 1
        /\ Cardinality(RootThunks(path)) <= 1
        /\ \A t \in RootThunks(path) : Count(evals, t) <= 1

RECURSIVE SameValue(_, _)
SameValue(d, e) ==
    LET names(x) == {x.ents[i].path[1] : i \in 1..Len(x.ents)}
        at(x, n) == x.ch[CHOOSE i \in 1..Len(x.ents) : x.ents[i].path[1] = n]
    IN  CASE d.k = "Literal" /\ e.k = "Literal" -> d.n = e.n
          [] d.k = "AttrSet" /\ e.k = "AttrSet" ->
                 /\ names(d) = names(e)
                 /\ \A n \in names(d) : SameValue(at(d, n), at(e, n))
          [] d.k = "List" /\ e.k = "List" ->
                 /\ Len(d.ch) = Len(e.ch)
                 /\ \A i \in 1..Len(d.ch) : SameValue(d.ch[i], e.ch[i])
          [] OTHER -> FALSE

C11_ListEquality ==
    /\ prog \in ListEqPrograms =>
          /\ status \in {"running", "done"}
          /\ status = "done" =>
                Denote(ret.v) = VBool(SameValue(prog.ch[1], prog.ch[2]))
    /\ prog \in SharedListPrograms =>
          /\ status \in {"running", "done"}
          /\ status = "done" => Denote(ret.v) = VBool(TRUE)

\* C12: a comparison that meets a lambda, alone or under a name of a set or
\* at a place of a list, on either side or on both, does not end with true
C12_LambdaNeverEqual ==
    prog \in LambdaEqPrograms /\ status = "done" => Denote(ret.v) = VBool(FALSE)

\* The applications whose argument has the name b, which no entry of the
\* pattern has, next to the name a
ExtraKey == {e \in PatternPrograms : Len(e.ch[2].ents) = 2}

\* C13: the application of a pattern to a set with a name the pattern lacks
\* ends with an error when the pattern has no ellipsis; with the ellipsis it
\* ends with the value of the body, the name left aside
C13_PatternStrictness ==
    prog \in ExtraKey /\ status # "running" =>
        IF prog.ch[1].ch[1].param.ellipsis
        THEN status = "done" /\ Denote(ret.v) = VInt(1)
        ELSE status = "error"

\* The set builtins.tryEval returns for the argument e
Tried(e) ==
    IF e \in Raising
    THEN VAttrSet(("success" :> VBool(FALSE)) @@ ("value" :> VBool(FALSE)))
    ELSE VAttrSet(("success" :> VBool(TRUE))
                  @@ ("value" :> IF e = Lit(1) THEN VInt(1)
                                 ELSE VAttrSet("a" :> VInt(1))))
Tested(p) == IF p.k = "LetIn" THEN p.ch[1] ELSE p.ch[2].ch[1]

\* C14: builtins.tryEval x returns { success = true; value = x; } when the
\* force of x succeeds and { success = false; value = false; } when it raises
\* an error, an error raised by throw included, and evaluation continues
C14_TryEvalCatches ==
    prog \in TryEvalPrograms =>
        /\ status \in {"running", "done"}
        /\ status = "done" => Denote(ret.v) = Tried(Tested(prog))

\* An entry of a let is being inserted
LetInserting ==
    /\ Len(stack) > 1
    /\ Top.fn = "insert_entry_to_attrset"
    /\ stack[Len(stack) - 1].fn = "visit_letin"

\* C15: the bindings of a let go into a fresh frame: inserting them adds no
\* name to and overwrites no name in a set that existed before the let (the
\* frame of the enclosing scope, the call frame of a lambda, the set of an
\* enclosing with)
C15_LetFreshFrame ==
    [][(prog \in LetPrograms /\ LetInserting)
           => (\A v \in 1..Len(values) : values'[v] = values[v])]_vars

\* The name the program binds lexically around its with
Lexical(p) ==
    CASE p.k = "LetIn" -> p.ents[1].path[1]
      [] p.k = "Apply" -> p.ch[1].ch[1].param
      [] p.k = "Select" -> p.ch[1].ents[1].path[1]

\* C16: in `with E; body` a name bound lexically in an enclosing scope (let,
\* rec set, lambda parameter) shadows the entry of E with that name; a name
\* not bound lexically is the entry of E
C16_LexicalShadowsWith ==
    prog \in WithPrograms =>
        /\ status \in {"running", "done"}
        /\ status = "done" =>
               Denote(ret.v) = VInt(IF Lexical(prog) = "x" THEN 1 ELSE 2)

\* C17: `inherit x;` binds x to the value x has in the scope around the set
\* or let that holds the inherit; in a rec set and in a let the force of the
\* inherited thunk does not find the inherited binding itself
C17_InheritFromSurrounding ==
    prog \in InheritPrograms =>
        /\ status \in {"running", "done"}
        /\ status = "done" => Denote(ret.v) = VInt(1)

\* The value of an expression made of integers and sets
RECURSIVE ValueOf(_)
ValueOf(e) ==
    IF e.k = "Literal" THEN VInt(e.n)
    ELSE VAttrSet([n \in {e.ents[i].path[1] : i \in 1..Len(e.ents)} |->
                      ValueOf(e.ch[CHOOSE i \in 1..Len(e.ents) : e.ents[i].path[1] = n])])

\* The deep force of the value of the expression raises an error
RECURSIVE Fails(_)
Fails(e) == e = Fail \/ (e.k = "AttrSet" /\ \E i \in 1..Len(e.ch) : Fails(e.ch[i]))

C19_HasAttrIsBool ==
    prog \in HasAttrPrograms =>
        /\ status \in {"running", "done"}
        /\ status = "done" =>
               Denote(ret.v) = VBool(Walk(prog.ch[1], prog.attrs).r = "found")

\* The set expression without its assignments to an empty last name
Kept(e) ==
    LET keep == SelectSeq([i \in 1..Len(e.ents) |-> i],
                          LAMBDA i : Last(e.ents[i].path) # "")
    IN  AttrSet([j \in 1..Len(keep) |-> e.ents[keep[j]]],
                [j \in 1..Len(keep) |-> e.ch[keep[j]]])

\* C20: an assignment whose last name is the empty string is dropped without
\* an error: the set is the one the other assignments give, with no entry
\* under the empty name and none for the names before it
C20_EmptyNameDropped ==
    prog \in EmptyNamePrograms =>
        /\ status \in {"running", "done"}
        /\ status = "done" => Denote(ret.v) = ValueOf(Kept(prog))

\* The entries of a builder, nested sets included, whatever it has cached
RECURSIVE Contents(_)
Contents(b) ==
    [k \in DOMAIN b.building |->
        IF b.building[k].var THEN [t |-> "var", v |-> b.building[k].v]
        ELSE [t |-> "set", m |-> Contents(b.building[k].b)]]

\* C21: the snapshot cached() returns holds exactly the entries inserted so
\* far, after any sequence of insert_var, insert, insert_entry and cached
\* calls, entries of nested sets included
C21_SnapshotIsCurrent ==
    snapshot.r = "snapshot" => snapshot.set = Contents(builder)

\* The order of two numbers as -1, 0 or 1
Sign(a, b) == IF a < b THEN -1 ELSE IF a > b THEN 1 ELSE 0

\* C22: a builtin of two parameters applied to one argument gives a new
\* builtin that holds that argument, and no step changes a builtin that is
\* already there; the native body has a frame only with both arguments, and
\* one partial application completed twice gives the two results of the
\* captured argument against each last argument, in application order
C22_NativeCurrying ==
    [][(prog \in CurryPrograms) =>
        (/\ \A i \in 1..Len(values) :
                (values[i].t = "builtin") => (values'[i] = values[i])
         /\ (At("visit_apply", "argument") /\ ret.ok /\ values[Top.v].t = "builtin"
                 /\ Len(values[Top.v].args) + 1 < Arity(values[Top.v].name)) =>
                (/\ ret'.ok
                 /\ ret'.v # Top.v
                 /\ values'[ret'.v] = VPartial(values[Top.v].name,
                                              Append(values[Top.v].args, ret.v)))
         /\ \A k \in 1..Len(stack') :
                (stack'[k].fn = "compare_versions") => (Len(stack'[k].xs) = 2)
         /\ status' # "panic"
         /\ \A a \in Components, b \in Components, c \in Components :
                (prog = CurryOf(a, b, c) /\ status' = "done") =>
                    (Denote(ret.v) = VList(<<VInt(Sign(a, b)), VInt(Sign(a, c))>>))')]_vars

\* `let p = builtins.compareVersions "2"; in [ (p "10") (p "2") ]` has given
\* [ -1 0 ] and the builtin that `builtins.compareVersions` names holds nothing
C22_Witness ==
    /\ prog = CurryOf(2, 10, 2)
    /\ status = "done"
    /\ Denote(ret.v) = VList(<<VInt(-1), VInt(0)>>)
    /\ \E i \in 1..Len(values) :
           values[i] = VPartial("compare_versions", <<>>)
    /\ \E i \in 1..Len(values) :
           values[i].t = "builtin" /\ values[i].name = "compare_versions"
               /\ Len(values[i].args) = 1

\* The lexicographic order of two sequences of numbers as -1, 0 or 1: the
\* first differing component decides, a proper prefix comes first
RECURSIVE Lex(_, _)
Lex(a, b) ==
    IF a = <<>> /\ b = <<>> THEN 0
    ELSE IF a = <<>> THEN -1
    ELSE IF b = <<>> THEN 1
    ELSE IF Head(a) # Head(b) THEN Sign(Head(a), Head(b))
    ELSE Lex(Tail(a), Tail(b))

\* C26: `builtins.compareVersions a b` gives the lexicographic order of the
\* numeric components of a and b as the Int -1, 0 or 1, for every component
\* value: 0 only for equal sequences, and never an abort
C26_CompareVersionsIsLex ==
    \A a \in Versions, b \in Versions :
        prog = CompareOf(a, b) =>
            /\ status # "panic"
            /\ status = "done" => Denote(ret.v) = VInt(Lex(a, b))

\* C23: an operand of the wrong type ends the run with an error value at the
\* top level: the run neither aborts nor gives a value
C23_FailureIsErrorValue ==
    prog \in WrongTypePrograms => status \in {"running", "error"}

\* C24: the run of `(x: x x) (x: x x)` ends, and it ends with an
\* infinite-recursion error: the calls do not nest until the stack is full
C24_SelfApplicationDetected ==
    prog = SelfApplication =>
        /\ status # "overflow"
        /\ Len(stack) < MaxStack
        /\ status # "running" =>
               status = "error" /\ ret.err.kind = "InfiniteRecursion"

\* C27: the argument of a lambda is not evaluated by the application: it is
\* evaluated at most once however often the body uses the parameter, and
\* not at all when the body does not use it, so that `(x: 1) (e)` gives 1
\* even when e raises
C27_LazyArguments ==
    prog \in LazyArgPrograms =>
        /\ Count(visits, Span(MainPath, <<2>>)) <= 1
        /\ prog.ch[1].ch[1].ch[1] = Lit(1) =>
               /\ Count(visits, Span(MainPath, <<2>>)) = 0
               /\ status # "running" => status = "done" /\ Denote(ret.v) = VInt(1)

\* C28: the deep force of the result ends on a value whose thunks all force,
\* cyclic or not: the traversal does not nest until the stack is full, the
\* run ends with the value, and no thunk has its body evaluated twice
C28_DeepForceTerminates ==
    prog \in CyclicPrograms =>
        /\ status \in {"running", "done"}
        /\ Len(stack) < MaxStack
        /\ \A t \in 1..Len(thunks) : Count(evals, t) <= 1

\* C29: a select or a has-attribute test on a set without `a` leaves the set
\* without `a`: the test `s ? a` made after it is false, and while the run
\* goes on the set that s names has the keys it was built with
C29_ReadingNeverWrites ==
    prog \in ReadPrograms =>
        /\ status # "panic"
        /\ status = "done" => Denote(ret.v).items[2] = VBool(FALSE)
        /\ \A i \in 1..Len(values) :
               (values[i].t = "attrs" /\ \A k \in 1..Len(scopes) : scopes[k].vars # i)
                   => "a" \notin DOMAIN values[i].m

\* C30: the base-32 text of a digest of any algorithm is read back by
\* Hash::new as Ok with the bytes of the digest, and no turn of the decoding
\* shifts an 8 bit value by 8 bits or more
C30_Base32RoundTrip ==
    Len(hash.rest) = base32(HashSize(hash.algorithm)) =>
        /\ hash.pc \notin {"panic", "InvalidBase32Hash", "InvalidHashLength"}
        /\ hash.shift < 8
        /\ hash.pc = "Ok" => hash.hash_out = hash.bytes

\* The SHA-256 digest of a text, computed block after block (each round is
\* computed before the next one is entered)
RECURSIVE Sha256Rounds(_, _, _)
Sha256Rounds(regs, w, t) ==
    IF t = 64 THEN regs
    ELSE LET next == Sha256Step(regs, Sha256K[t + 1], w[t + 1])
         IN  IF Len(next) = 8 THEN Sha256Rounds(next, w, t + 1) ELSE <<>>
RECURSIVE Sha256Blocks(_, _)
Sha256Blocks(h, data) ==
    IF data = <<>> THEN h
    ELSE LET regs == Sha256Rounds(h, Sha256Schedule(SubSeq(data, 1, 64)), 0)
         IN  Sha256Blocks([i \in 1..8 |-> WAdd(h[i], regs[i])],
                          SubSeq(data, 65, Len(data)))
Sha256(text) == Sha256Digest(Sha256Blocks(Sha256H0, Sha256Pad(as_bytes(text))))

\* C25: the path of a fixed output k with method nar and algorithm sha256 is
\* "/nix/store/" + B + "-" + pathName, where pathName is the name of the
\* derivation for k = "out" and name + "-" + k otherwise, and B is the 32
\* characters of base 32 of the 20 bytes that the 32 bytes D of the SHA-256
\* of "source:sha256:" + hex(hash) + ":/nix/store:" + pathName fold into
\* (byte i of D is xor-ed into byte i modulo 20); for the reference
\* derivation the path is the reference path
C25_StorePath ==
    drv.pc = "Some" =>
        LET output == drv.outputs[drv.k]
            pathName == IF drv.k = <<"o", "u", "t">> THEN drv.name
                        ELSE drv.name \o <<"-">> \o drv.k
            D == Sha256(<<"s", "o", "u", "r", "c", "e", ":", "s", "h", "a", "2", "5", "6", ":">>
                            \o print_base16(output.bytes, 32)
                            \o <<":", "/", "n", "i", "x", "/", "s", "t", "o", "r", "e", ":">>
                            \o pathName)
            compressed == [j \in 1..20 |->
                              IF j <= 12 THEN BitXor(D[j], D[j + 20]) ELSE D[j]]
            B == print_base32(compressed, 20)
        IN  /\ output.kind = "CAFixed"
            /\ output.method = "NixArchive" /\ output.algorithm = "sha256"
            /\ Len(B) = 32
            /\ drv.path = <<"/", "n", "i", "x", "/", "s", "t", "o", "r", "e", "/">>
                              \o B \o <<"-">> \o pathName
            /\ (output = Reference /\ pathName = <<"s", "o", "u", "r", "c", "e">>) =>
                   drv.path = ReferencePath

\* The path of the output `out` of the reference derivation has been
\* computed and is the reference path
C25_Witness ==
    /\ drv.pc = "Some"
    /\ drv.outputs[drv.k] = Reference
    /\ drv.k = <<"o", "u", "t">>
    /\ drv.path = ReferencePath
====
